---- MODULE Spec2Model ----
(***************************************************************************)
(* The agent tool-calling runtime of itcop: BaseAgent's process_message    *)
(* and process_task loops, process_llm_response's tool-call recognition,   *)
(* and the LLMClient operations they use (get_response with its response   *)
(* cache, append_tool_response).                                           *)
(*                                                                         *)
(* Texts are TLA+ strings: concatenation is \o, a Python slice s[:n] is    *)
(* Slice(s, n).                                                            *)
(***************************************************************************)
EXTENDS Integers, Sequences, FiniteSets, TLC

(***************************************************************************)
(* Bounds of the exploration.                                              *)
(***************************************************************************)
\* invocations of process_message / process_task in one run
MaxCalls == 2
\* the effort of one run: each choice of the environment (a model text, a
\* tool outcome, an input) has a cost, and a run spends at most MaxEffort
MaxEffort == 21
\* cleanup() / reset_conversation() calls in one run
MaxResets == 1

(***************************************************************************)
(* Program constants.                                                      *)
(***************************************************************************)
MAX_TOOL_ITERATIONS == 20
TOOL_RESULT_DEBUG_LIMIT == 2000

(***************************************************************************)
(* Text helpers.                                                           *)
(***************************************************************************)
\* Python s[:n]
Slice(s, n) == IF Len(s) <= n THEN s ELSE SubSeq(s, 1, n)

\* Python s.startswith(p)
StartsWith(s, p) == Len(s) >= Len(p) /\ SubSeq(s, 1, Len(p)) = p

\* Python `sub in s` for strings
Contains(s, sub) ==
    \E i \in 1..(Len(s) - Len(sub) + 1) : SubSeq(s, i, i + Len(sub) - 1) = sub

RECURSIVE Doubled(_, _)
Doubled(s, k) == IF k = 0 THEN s ELSE Doubled(s \o s, k - 1)

\* a tool result of 16384 characters, longer than every client's limit
BigResult == Doubled("0123456789abcdef", 10)

(***************************************************************************)
(* The language-model clients (src/llm_client.py).                         *)
(***************************************************************************)
Clients == {"Claude", "LocalQwen", "LocalQwenOlama", "ChatGPT"}

\* LocalQwenOlamaLLMClient overrides get_response and leaves the abstract
\* get_response_from_LLM undefined: constructing one raises TypeError, so no
\* agent holds one
defines_get_response_from_LLM(c) == c # "LocalQwenOlama"
Instantiable == {c \in Clients : defines_get_response_from_LLM(c)}

get_max_tool_response_length(c) ==
    IF c \in {"LocalQwen", "LocalQwenOlama"} THEN 16000 ELSE 8000

include_tool_results_in_history(c) == c # "ChatGPT"

\* a test that takes every response for an error
is_error_response_always(response) == TRUE

\* LLMClient._is_error_response
is_error_response(response) ==
    StartsWith(response, "error: model.generate timed out")

Message(role, content) == [role |-> role, content |-> content]

\* a client that never stores the tool result in the list it is given
append_tool_response_copy(c, response, conv) ==
    [conversation |-> conv,
     messages |-> Append(conv, Message("system",
                      IF Len(response) <= 8000 THEN response
                      ELSE SubSeq(response, 1, 8000)))]

\* LLMClient.append_tool_response: the pair (the caller's list after the
\* call, the list returned).  The caller's list is mutated in place exactly
\* when the client includes tool results in the history.
append_tool_response(c, response, conv) ==
    LET cut == Slice(response, get_max_tool_response_length(c))
        msgs == Append(conv, Message("system", cut))
    IN  IF include_tool_results_in_history(c)
        THEN [conversation |-> msgs, messages |-> msgs]
        ELSE [conversation |-> conv, messages |-> msgs]

\* LLMClient.clean_response on the texts of this model: a <think> section
\* is removed and the result is stripped; a text holding neither a <think>
\* section nor a fenced json block is returned as it is.
THINK_T1 == "<think>plan</think>\n{\"tool\": \"t1\", \"arguments\": {}}"
clean_response(text) ==
    IF text = THINK_T1 THEN "{\"tool\": \"t1\", \"arguments\": {}}" ELSE text

(***************************************************************************)
(* The texts the language model may answer with.                           *)
(***************************************************************************)
TC_T1           == "{\"tool\": \"t1\", \"arguments\": {}}"
TC_T2           == "{\"tool\": \"t2\", \"arguments\": {\"a\": 1}}"
TC_UNKNOWN      == "{\"tool\": \"t9\", \"arguments\": {}}"
TC_EXTRA        == "{\"tool\": \"t1\", \"arguments\": {}, \"note\": 1}"
TC_TOOL_NOT_STR == "{\"tool\": 7, \"arguments\": {}}"
TC_ARGS_NOT_MAP == "{\"tool\": \"t1\", \"arguments\": [1]}"
OBJ_NO_ARGS     == "{\"tool\": \"t1\"}"
NUM             == "5"
NULL            == "null"
STR_PLAIN       == "\"hi\""
STR_BOTH        == "\"tool arguments\""
LIST_PLAIN      == "[1]"
LIST_BOTH       == "[\"tool\", \"arguments\"]"
PLAIN           == "done"

\* the texts that stand for the ordinary run: a known tool call, a final answer
FreeTexts == {TC_T1, PLAIN}
OtherTexts == {TC_T2, TC_UNKNOWN, TC_EXTRA, TC_TOOL_NOT_STR, TC_ARGS_NOT_MAP,
               OBJ_NO_ARGS, NUM, NULL, STR_PLAIN, STR_BOTH, LIST_PLAIN,
               LIST_BOTH, THINK_T1}
ModelTexts == FreeTexts \cup OtherTexts

(***************************************************************************)
(* json.loads on those texts.  A parsed value is a record: kind is the     *)
(* Python type, keys the keys of a dict, elems the elements of a list,     *)
(* sval the value of a str; for a dict with those keys, tool is str() of   *)
(* the "tool" value, tool_kind its type, arguments str() of the            *)
(* "arguments" value and arguments_kind its type.  Any other text is not   *)
(* JSON: json.loads raises JSONDecodeError (ok = FALSE).                   *)
(***************************************************************************)
JValue(kind, keys, elems, sval, tool, tool_kind, arguments, arguments_kind) ==
    [ok |-> TRUE, kind |-> kind, keys |-> keys, elems |-> elems, sval |-> sval,
     tool |-> tool, tool_kind |-> tool_kind,
     arguments |-> arguments, arguments_kind |-> arguments_kind]

JDict(keys, tool, tool_kind, arguments, arguments_kind) ==
    JValue("dict", keys, {}, "", tool, tool_kind, arguments, arguments_kind)

JSONDecodeError == [ok |-> FALSE]

json_loads(text) ==
    CASE text = TC_T1 -> JDict({"tool", "arguments"}, "t1", "str", "{}", "dict")
      [] text = TC_T2 -> JDict({"tool", "arguments"}, "t2", "str", "{'a': 1}", "dict")
      [] text = TC_UNKNOWN -> JDict({"tool", "arguments"}, "t9", "str", "{}", "dict")
      [] text = TC_EXTRA ->
            JDict({"tool", "arguments", "note"}, "t1", "str", "{}", "dict")
      [] text = TC_TOOL_NOT_STR -> JDict({"tool", "arguments"}, "7", "int", "{}", "dict")
      [] text = TC_ARGS_NOT_MAP -> JDict({"tool", "arguments"}, "t1", "str", "[1]", "list")
      [] text = OBJ_NO_ARGS -> JDict({"tool"}, "t1", "str", "", "none")
      [] text = NUM -> JValue("int", {}, {}, "", "", "none", "", "none")
      [] text = NULL -> JValue("NoneType", {}, {}, "", "", "none", "", "none")
      [] text = STR_PLAIN -> JValue("str", {}, {}, "hi", "", "none", "", "none")
      [] text = STR_BOTH ->
            JValue("str", {}, {}, "tool arguments", "", "none", "", "none")
      [] text = LIST_PLAIN -> JValue("list", {}, {"1"}, "", "", "none", "", "none")
      [] text = LIST_BOTH ->
            JValue("list", {}, {"tool", "arguments"}, "", "", "none", "", "none")
      [] OTHER -> JSONDecodeError

\* Python `key in value`: defined on a dict (its keys), a list (its
\* elements) and a str (substring); a TypeError on every other type.
py_in_defined(v) == v.kind \in {"dict", "list", "str"}
py_in(key, v) ==
    CASE v.kind = "dict" -> key \in v.keys
      [] v.kind = "list" -> key \in v.elems
      [] v.kind = "str" -> Contains(v.sval, key)
      [] OTHER -> FALSE

(***************************************************************************)
(* BaseAgent.process_llm_response up to its await of execute_tool:         *)
(*   return  - the method returns value without executing anything,        *)
(*   raise   - an exception other than JSONDecodeError leaves the method,  *)
(*   execute - execute_tool(tool, arguments) is awaited.                   *)
(***************************************************************************)
Return(value) == [kind |-> "return", value |-> value, tool |-> "", arguments |-> ""]
Raise(exc) == [kind |-> "raise", value |-> exc, tool |-> "", arguments |-> ""]
Execute(tool, arguments) ==
    [kind |-> "execute", value |-> "", tool |-> tool, arguments |-> arguments]

\* a lookup that finds every name
has_tool_any(tool_name, tools) == TRUE

\* line 73: any(tool.name == tool_name for tool in self.tools)
has_tool(tool_name, tools) == tool_name \in tools

process_llm_response(llm_response, tools) ==
    LET tool_call == json_loads(llm_response)
    IN  IF ~tool_call.ok THEN Return(llm_response)
        ELSE IF ~py_in_defined(tool_call) THEN Raise("TypeError")
        ELSE IF ~(py_in("tool", tool_call) /\ py_in("arguments", tool_call))
             THEN Return(llm_response)
        ELSE IF tool_call.kind # "dict" THEN Raise("TypeError")
        ELSE IF tool_call.tool_kind = "str" /\ has_tool(tool_call.tool, tools)
             THEN Execute(tool_call.tool, tool_call.arguments)
        ELSE Return("Unknown tool: " \o tool_call.tool)

\* a failure reported like a result
tool_result_text_unmarked(outcome) == "Tool execution result: " \o outcome.text

\* the rest of process_llm_response, once execute_tool has returned a value
\* (shown by str()) or raised an exception (shown by str())
tool_result_text(outcome) ==
    IF outcome.raised THEN "Error executing tool: " \o outcome.text
    ELSE "Tool execution result: " \o outcome.text

(***************************************************************************)
(* What one call of the underlying model can do: answer with a text, fail  *)
(* in transport (a timeout, a network error), or fail otherwise (an HTTP   *)
(* error status, an exception of the generator).                           *)
(***************************************************************************)
RawOutcomes ==
    {[kind |-> "ok", text |-> t] : t \in ModelTexts}
        \cup {[kind |-> "transport", text |-> ""], [kind |-> "status", text |-> ""]}

TIMEOUT_TEXT == "error: model.generate timed out after 180 seconds"
APOLOGY_TEXT ==
    "I encountered an error: Error getting ChatGPT response: timed out. "
        \o "Please try again or rephrase your request."

Answered(text) == [raised |-> FALSE, text |-> text]
Raised(exc) == [raised |-> TRUE, text |-> exc]

\* get_response_from_LLM of each client (for LocalQwenOlama, the body of
\* its own get_response).  ClaudeLLMClient builds its payload from
\* self.model, an attribute no constructor sets.
get_response_from_LLM(c, raw) ==
    CASE c = "Claude" -> Raised("AttributeError")
      [] c = "LocalQwen" ->
            IF raw.kind = "ok" THEN Answered(clean_response(raw.text))
            ELSE IF raw.kind = "transport" THEN Answered(TIMEOUT_TEXT)
            ELSE Raised("Exception")
      [] c = "LocalQwenOlama" ->
            IF raw.kind = "ok" THEN Answered(clean_response(raw.text))
            ELSE Answered("error!")
      [] c = "ChatGPT" ->
            IF raw.kind = "ok" THEN Answered(clean_response(raw.text))
            ELSE IF raw.kind = "transport" THEN Answered(APOLOGY_TEXT)
            ELSE Raised("HTTPStatusError")

\* json.dumps({"system_prompt": ..., "messages": ...}, sort_keys=True)
cache_key(system_prompt, messages) ==
    [system_prompt |-> system_prompt, messages |-> messages]

\* a cache_put that stores nothing
cache_put_nothing(ch, key, response) == ch

cache_put(ch, key, response) ==
    [k \in (DOMAIN ch) \cup {key} |-> IF k = key THEN response ELSE ch[k]]

\* a get_response that stores whatever the model call returned
get_response_storing_all(c, ch, system_prompt, messages, raw) ==
    LET key == cache_key(system_prompt, messages)
        r == get_response_from_LLM(c, raw)
    IN  IF key \in DOMAIN ch
        THEN [raised |-> FALSE, response |-> ch[key], cache |-> ch, invoked |-> FALSE]
        ELSE IF r.raised
        THEN [raised |-> TRUE, response |-> r.text, cache |-> ch, invoked |-> TRUE]
        ELSE [raised |-> FALSE, response |-> r.text,
              cache |-> cache_put(ch, key, r.text), invoked |-> TRUE]

\* LLMClient.get_response (LocalQwenOlamaLLMClient overrides it and has no
\* cache): whether it raised, the response, the cache afterwards, and
\* whether the underlying model was invoked.
get_response(c, ch, system_prompt, messages, raw) ==
    LET key == cache_key(system_prompt, messages)
        r == get_response_from_LLM(c, raw)
    IN  IF c = "LocalQwenOlama"
        THEN [raised |-> FALSE, response |-> r.text, cache |-> ch, invoked |-> TRUE]
        ELSE IF key \in DOMAIN ch
        THEN [raised |-> FALSE, response |-> ch[key], cache |-> ch, invoked |-> FALSE]
        ELSE IF r.raised
        THEN [raised |-> TRUE, response |-> r.text, cache |-> ch, invoked |-> TRUE]
        ELSE [raised |-> FALSE, response |-> r.text,
              cache |-> IF is_error_response(r.text) THEN ch
                        ELSE cache_put(ch, key, r.text),
              invoked |-> TRUE]

(***************************************************************************)
(* The agent (src/baseagent.py).                                           *)
(***************************************************************************)
\* the tools get_tools() returns, in order
AgentTools == <<"t1", "t2">>

Range(f) == {f[i] : i \in DOMAIN f}

format_for_llm(tool) == "Tool: " \o tool

RECURSIVE join_lines(_)
join_lines(parts) ==
    IF parts = <<>> THEN ""
    ELSE IF Len(parts) = 1 THEN parts[1]
    ELSE parts[1] \o "\n" \o join_lines(Tail(parts))

describe_tools(tools) == join_lines([i \in DOMAIN tools |-> format_for_llm(tools[i])])

get_system_prompt(tools_description) ==
    "You have access to these tools:\n\n" \o tools_description

get_system_message(tools_description) ==
    Message("system", get_system_prompt(tools_description))

\* what execute_tool can do: return a value or raise
ToolOutcomes ==
    {[raised |-> FALSE, text |-> "r1"], [raised |-> FALSE, text |-> BigResult],
     [raised |-> TRUE, text |-> "boom"]}

Inputs == {"u1", "u2"}

\* The cost of the environment's choices.  A final answer, the tool result
\* "r1", the input "u1" and the first invocation are free, so that a run
\* can always go on; one more link of a chain of tool calls costs 1; every
\* other choice costs 12 and every later invocation costs 9.
RawCost(raw) ==
    IF raw.kind = "ok" /\ raw.text = PLAIN THEN 0
    ELSE IF raw.kind = "ok" /\ raw.text = TC_T1 THEN 1
    ELSE 12
ToolCost(outcome) == IF outcome = [raised |-> FALSE, text |-> "r1"] THEN 0 ELSE 12
InputCost(input) == IF input = "u1" THEN 0 ELSE 12
CallCost(left) == IF left = MaxCalls THEN 0 ELSE 9

VARIABLES
    client,             \* the LLM client the agent was constructed with
    cache,              \* LLMClient.cache
    tools,              \* BaseAgent.tools
    tools_description,  \* BaseAgent.tools_description
    initialized,        \* BaseAgent.initialized
    conversation,       \* BaseAgent.conversation
    pc,                 \* where the current invocation is
    mode,               \* "message" (process_message) or "task" (process_task)
    request,            \* its argument
    response,           \* its local variable response
    iteration_count,    \* its local variable iteration_count
    last_tool_result,   \* process_task's local variable last_tool_result
    pending,            \* the execute_tool call being awaited
    ret,                \* what the invocation returned
    exc,                \* the exception that left the invocation
    executions,         \* history: the execute_tool calls of the invocation
    responses,          \* history: the responses get_response gave it
    results,            \* history: what process_llm_response returned to its loop
    last_messages,      \* history: the messages of its latest get_response
    last_outcome,       \* history: what its latest execute_tool call did
    llm_requests,       \* history: the number of its get_response calls
    conv0,              \* history: the conversation when it was called
    op,                 \* history: the operation of the latest step
    calls_left, effort_left, resets_left

vars == <<client, cache, tools, tools_description, initialized, conversation,
          pc, mode, request, response, iteration_count, last_tool_result,
          pending, ret, exc, executions, responses, results, last_messages,
          last_outcome, llm_requests, conv0, op, calls_left, effort_left, resets_left>>

agent_vars == <<tools, tools_description, initialized>>
frame_vars == <<mode, request, response, iteration_count, last_tool_result,
                pending, ret, exc>>
history_vars == <<executions, responses, results, last_messages, last_outcome,
                  llm_requests, conv0>>

(***************************************************************************)
(* The state of the other parts of the program.  Each part has its own     *)
(* specification; while one part runs, the others rest in their initial    *)
(* state.                                                                  *)
(***************************************************************************)
VARIABLES
    mcp,        \* one MCPManager: config, session, stdio_context,
                \* _cached_tools, _cleanup_lock, exit_stack
    task,       \* the coroutines using it: where each one is
    seen,       \* history: what has happened to the connection
    latest,     \* history: the latest step taken on the connection
    ops_left    \* operations that may still be started on it

conn_vars == <<mcp, task, seen, latest, ops_left>>

\* self.session = None, and the lock when nobody holds it
None == 0

\* the coroutines that share the connection
Tasks == {1, 2}

NoOutcomeYet == [kind |-> "none", value |-> ""]

\* a coroutine that is not inside any operation of the connection
IdleTask ==
    [op |-> "", at |-> "idle", retries |-> 0, attempt |-> 0, used |-> None,
     errors |-> <<>>, events |-> <<>>, outcome |-> NoOutcomeYet,
     listed |-> <<>>, source |-> None, handshaken |-> FALSE, fetched |-> FALSE,
     before |-> [op |-> "", kind |-> "none", attempts |-> 0], alone |-> TRUE]

\* MCPManager.__init__
NewMCPManager(config) ==
    [config |-> config, session |-> None, stdio_context |-> None,
     cached_tools |-> <<>>, cleanup_lock |-> None, exit_stack |-> 0]

\* handshaken: a session handshake has completed since the connection was
\* created or last cleaned up; fetched: a tool list has been fetched since
\* the connection was created or last cleaned up
NothingSeen == [handshaken |-> FALSE, fetched |-> FALSE]

ConnParked ==
    /\ mcp = NewMCPManager("command")
    /\ task = [t \in Tasks |-> IdleTask]
    /\ seen = NothingSeen
    /\ latest = [task |-> 0, step |-> "init"]
    /\ ops_left = 0

VARIABLES
    servers,    \* NavigationAgent.servers: for each MCPManager its session
                \* and its _cached_tools
    declared,   \* the tool list each server's provider answers with
    nav,        \* NavigationAgent.execute_tool: where it is, and its history
    nav_left    \* the calls that may still be started

nav_vars == <<servers, declared, nav, nav_left>>

\* the configured order of the servers of the navigation agent
Servers == 1..2

NavIdle ==
    [initialized |-> FALSE, tools |-> <<>>, tools_description |-> "",
     unreached |-> {}, held |-> Servers, cleaned |-> FALSE,
     op |-> "", at |-> "idle", i |-> 0, tool |-> "", listed |-> <<>>,
     invoked |-> <<>>, outcome |-> NoOutcomeYet]

NavParked ==
    /\ servers = [s \in Servers |-> [session |-> None, cached_tools |-> <<>>]]
    /\ declared = [s \in Servers |-> <<>>]
    /\ nav = NavIdle
    /\ nav_left = 0

VARIABLES
    coord,      \* ConversationAgent.page_context, PageAnalysisAgent.page_context
                \* and the history of the sub-agent invocations
    coord_left  \* the tool calls that may still be dispatched

coord_vars == <<coord, coord_left>>

\* self.page_context = None (src/conversationagent.py:15), as str() shows it
NoPage == "None"

CoordNew ==
    [page_context |-> NoPage, analysis_page_context |-> "",
     returned |-> NoPage, navigations |-> 0, prompt |-> "", latest |-> "init",
     outcome |-> NoOutcomeYet]

CoordParked ==
    /\ coord = CoordNew
    /\ coord_left = 0

VARIABLES
    lc,         \* one LLMClient: whether its constructor returned, its class,
                \* its cache, and the history of its get_response calls
    store,      \* the content of the file cache.json
    lc_left     \* the operations left to this exploration

llm_vars == <<lc, store, lc_left>>

\* the texts a request is made of
Prompts == {"p1", "p2"}
AskedMessages == <<Message("user", "u1")>>

\* json.load of the store file gives a dict, or a value of another type
CacheValue(kind, map) == [kind |-> kind, map |-> map]
EmptyCache == CacheValue("dict", <<>>)

\* the content of cache.json: no file, bytes that are not text, text that
\* is not JSON, or the JSON text of a value
AbsentStore == [kind |-> "absent", value |-> EmptyCache]
Dumped(value) == [kind |-> "json", value |-> value]

\* the history of the calls made with one request since the client was
\* constructed: how many, how many reached get_response_from_LLM, what the
\* first one did, and the texts transient failures were turned into
NoCalls == [calls |-> 0, invoked |-> 0, first |-> NoOutcomeYet, failures |-> {}]

NoAsk ==
    [prompt |-> "", kind |-> "none", value |-> "", invoked |-> FALSE,
     raw |-> "none", before |-> NoCalls]

\* LLMClient.__init__, lines 30-35: FileNotFoundError and JSONDecodeError
\* give an empty cache; whatever else open or json.load raises leaves the
\* constructor; a parsed value becomes the cache whatever its type
load_cache(file) ==
    CASE file.kind \in {"absent", "not_json"} -> [raised |-> FALSE, cache |-> EmptyCache]
      [] file.kind = "undecodable" -> [raised |-> TRUE, cache |-> EmptyCache]
      [] OTHER -> [raised |-> FALSE, cache |-> file.value]

NewLLMClient(c, file) ==
    [alive |-> ~load_cache(file).raised,
     class |-> c,
     cache |-> load_cache(file).cache,
     loaded |-> file,
     hist |-> [p \in Prompts |-> NoCalls],
     latest |-> NoAsk]

CacheParked ==
    /\ lc = NewLLMClient("ChatGPT", AbsentStore)
    /\ store = AbsentStore
    /\ lc_left = 0

VARIABLES
    gpt,        \* one ChatGPTLLMClient.get_response_from_LLM: self.delay,
                \* the loop variable attempt, where the call is, its history
    gpt_left

gpt_vars == <<gpt, gpt_left>>

GptNew ==
    [delay |-> 0, at |-> "idle", attempt |-> 0, posts |-> 0, waits |-> <<>>,
     status |-> 0, outcome |-> NoOutcomeYet]

RateParked ==
    /\ gpt = GptNew
    /\ gpt_left = 0

VARIABLES
    planner,    \* one TaskPlanner: questions, possible_answers, reason, and
                \* the history of its latest operation
    plan_left

plan_vars == <<planner, plan_left>>

PlannerNew ==
    [questions |-> <<>>, possible_answers |-> <<>>, reason |-> "",
     awaiting |-> FALSE,
     latest |-> [op |-> "init", kind |-> "none", value |-> "", requests |-> 0,
                 response |-> "", awaiting |-> FALSE, questions |-> <<>>,
                 possible_answers |-> <<>>, reason |-> "",
                 description |-> "", name |-> "",
                 task |-> [id |-> "", name |-> "", description |-> "",
                           steps |-> <<>>]]]

PlanParked ==
    /\ planner = PlannerNew
    /\ plan_left = 0

VARIABLES
    nest,       \* one instruction of the coordinating agent: the iteration
                \* counts of its loop and of the navigation sub-agent's loop,
                \* the server the sub-agent's execute_tool has reached, and
                \* the number of server.execute_tool calls so far
    nest_left

nest_vars == <<nest, nest_left>>

NestIdle ==
    [at |-> "idle", iteration_count |-> 0, sub_iteration_count |-> 0,
     i |-> 0, dispatches |-> 0]

NestParked ==
    /\ nest = NestIdle
    /\ nest_left = 0

VARIABLES
    sched       \* the scheduler thread and the threads that hand it requests:
                \* the process_message coroutine of every request, the thread
                \* waiting for it, and the conversation of every agent (the
                \* requests whose messages it holds, in order)

sched_vars == <<sched>>

\* the agents requests are handed to: the ConversationAgent of
\* app.process_message, and an agent of the TaskPlanner
SchedAgents == {"chatmanager", "missing_info_agent"}

NoLoop == [at |-> "none", agent |-> "", iteration_count |-> 0]
NoWaiter == [at |-> "none", outcome |-> [kind |-> "none", value |-> ""]]

SchedNew(requests) ==
    [loops |-> [r \in requests |-> NoLoop],
     waiters |-> [r \in requests |-> NoWaiter],
     conversations |-> [a \in SchedAgents |-> <<>>]]

SchedParked == sched = SchedNew({})

NoCall == [tool |-> "", arguments |-> ""]
NoResult == [response |-> "", context |-> ""]
NoOutcome == [raised |-> FALSE, text |-> ""]

AgentInit ==
    /\ client \in Instantiable
    /\ cache = <<>>
    /\ tools = <<>>
    /\ tools_description = ""
    /\ initialized = FALSE
    /\ conversation = <<>>
    /\ pc = "idle"
    /\ mode = "message"
    /\ request = ""
    /\ response = ""
    /\ iteration_count = 0
    /\ last_tool_result = ""
    /\ pending = NoCall
    /\ ret = NoResult
    /\ exc = ""
    /\ executions = <<>>
    /\ responses = <<>>
    /\ results = <<>>
    /\ last_messages = <<>>
    /\ last_outcome = NoOutcome
    /\ llm_requests = 0
    /\ conv0 = <<>>
    /\ op = "init"
    /\ calls_left = MaxCalls
    /\ effort_left = MaxEffort
    /\ resets_left = MaxResets

Init ==
    /\ AgentInit
    /\ ConnParked
    /\ NavParked
    /\ CoordParked
    /\ CacheParked
    /\ RateParked
    /\ PlanParked
    /\ NestParked
    /\ SchedParked

(***************************************************************************)
(* BaseAgent.initialize, as a function of the agent's tool fields.         *)
(***************************************************************************)
initialize(agent) ==
    IF agent.initialized THEN agent
    ELSE [tools |-> AgentTools,
          tools_description |-> describe_tools(AgentTools),
          initialized |-> TRUE]

Agent == [tools |-> tools, tools_description |-> tools_description,
          initialized |-> initialized]

NoInvocation == pc \in {"idle", "returned", "raised"}

\* one get_response of the running invocation, the model answering raw
Ask(description, messages, raw) ==
    get_response(client, cache, get_system_message(description), messages, raw)

\* the choice of raw is charged only when the model is invoked and the
\* client reads it
RawRead(g) == g.invoked /\ client # "Claude"
\* the model names the unknown tool again: the repetition is free, so that
\* a run can be made of such answers only
RepeatsUnknown(raw) ==
    pc = "loop" /\ response = TC_UNKNOWN /\ raw = [kind |-> "ok", text |-> TC_UNKNOWN]
Charged(g, raw, other) ==
    LET cost == other + (IF RawRead(g) /\ ~RepeatsUnknown(raw)
                         THEN RawCost(raw) ELSE 0)
    IN  /\ RawRead(g) \/ raw = [kind |-> "ok", text |-> PLAIN]
        /\ cost <= effort_left
        /\ effort_left' = effort_left - cost

(***************************************************************************)
(* process_message, lines 87-97: initialize if needed, append the user     *)
(* message, get the first response, append it.                             *)
(***************************************************************************)
ProcessMessageBegin ==
    /\ NoInvocation
    /\ calls_left > 0
    /\ \E input \in Inputs, raw \in RawOutcomes :
        LET a == initialize(Agent)
            conv1 == Append(conversation, Message("user", input))
            g == Ask(a.tools_description, conv1, raw)
        IN  /\ Charged(g, raw, InputCost(input) + CallCost(calls_left))
            /\ tools' = a.tools
            /\ tools_description' = a.tools_description
            /\ initialized' = a.initialized
            /\ cache' = g.cache
            /\ mode' = "message"
            /\ request' = input
            /\ conv0' = conversation
            /\ last_messages' = conv1
            /\ IF g.raised
               THEN /\ conversation' = conv1
                    /\ pc' = "raised"
                    /\ exc' = g.response
                    /\ response' = ""
                    /\ responses' = <<>>
               ELSE /\ conversation' = Append(conv1, Message("assistant", g.response))
                    /\ pc' = "loop"
                    /\ exc' = ""
                    /\ response' = g.response
                    /\ responses' = <<g.response>>
    /\ iteration_count' = 0
    /\ last_tool_result' = ""
    /\ pending' = NoCall
    /\ ret' = NoResult
    /\ executions' = <<>>
    /\ results' = <<>>
    /\ last_outcome' = NoOutcome
    /\ llm_requests' = 1
    /\ op' = "process_message"
    /\ calls_left' = calls_left - 1
    /\ UNCHANGED <<client, resets_left>>

(***************************************************************************)
(* process_task, lines 131-144: the conversation is a local list holding   *)
(* the one user turn.                                                      *)
(***************************************************************************)
ProcessTaskBegin ==
    /\ NoInvocation
    /\ calls_left > 0
    /\ \E input \in Inputs, raw \in RawOutcomes :
        LET a == initialize(Agent)
            local == <<Message("user", input)>>
            g == Ask(a.tools_description, local, raw)
        IN  /\ Charged(g, raw, InputCost(input) + CallCost(calls_left))
            /\ tools' = a.tools
            /\ tools_description' = a.tools_description
            /\ initialized' = a.initialized
            /\ cache' = g.cache
            /\ mode' = "task"
            /\ request' = input
            /\ conv0' = conversation
            /\ last_messages' = local
            /\ IF g.raised
               THEN /\ pc' = "raised"
                    /\ exc' = g.response
                    /\ response' = ""
                    /\ responses' = <<>>
               ELSE /\ pc' = "loop"
                    /\ exc' = ""
                    /\ response' = g.response
                    /\ responses' = <<g.response>>
    /\ iteration_count' = 0
    /\ last_tool_result' = ""
    /\ pending' = NoCall
    /\ ret' = NoResult
    /\ executions' = <<>>
    /\ results' = <<>>
    /\ last_outcome' = NoOutcome
    /\ llm_requests' = 1
    /\ op' = "process_task"
    /\ calls_left' = calls_left - 1
    /\ UNCHANGED <<client, conversation, resets_left>>

(***************************************************************************)
(* The body of the while loop after process_llm_response gave a result     *)
(* different from the response (lines 106-115 and 153-163): count the      *)
(* iteration, append the tool result, get and record the next response.    *)
(***************************************************************************)
\* process_task passing the agent's own conversation as well
appends_to_self_always(m) == TRUE

\* whether the list given to append_tool_response is self.conversation
\* (line 110) or a fresh list holding the user turn (line 161)
appends_to_self(m) == m = "message"

\* the list append_tool_response is given, and the text it is given
tool_response_target(m, conv, req) ==
    IF appends_to_self(m) THEN conv ELSE <<Message("user", req)>>
tool_response_text(m, result) ==
    IF m = "message" THEN result ELSE Slice(result, TOOL_RESULT_DEBUG_LIMIT)

\* the history replaced by the tool message instead of extended
conversation_rebuilt(m, conv, appended) ==
    IF appends_to_self(m) THEN <<appended.messages[Len(appended.messages)]>> ELSE conv

\* the agent's conversation once append_tool_response has returned: the
\* list it was given is the agent's own, or is dropped
conversation_after_append(m, conv, appended) ==
    IF appends_to_self(m) THEN appended.conversation ELSE conv

\* line 157: process_task keeps the result as the context to return
saved_tool_result(m, result, previous) == IF m = "task" THEN result ELSE previous

FeedBack(result, outcome, other) ==
    \E raw \in RawOutcomes :
        LET appended == append_tool_response(client,
                            tool_response_text(mode, result),
                            tool_response_target(mode, conversation, request))
            conv1 == conversation_after_append(mode, conversation, appended)
            g == Ask(tools_description, appended.messages, raw)
        IN  /\ Charged(g, raw, other)
            /\ iteration_count' = iteration_count + 1
            /\ last_tool_result' = saved_tool_result(mode, result, last_tool_result)
            /\ results' = Append(results, result)
            /\ last_outcome' = outcome
            /\ last_messages' = appended.messages
            /\ llm_requests' = llm_requests + 1
            /\ cache' = g.cache
            /\ pending' = NoCall
            /\ IF g.raised
               THEN /\ conversation' = conv1
                    /\ pc' = "raised"
                    /\ exc' = g.response
                    /\ UNCHANGED <<response, responses>>
               ELSE /\ conversation' =
                         IF mode = "message"
                         THEN Append(conv1, Message("assistant", g.response))
                         ELSE conv1
                    /\ pc' = "loop"
                    /\ response' = g.response
                    /\ responses' = Append(responses, g.response)
                    /\ UNCHANGED exc
            /\ UNCHANGED <<client, agent_vars, mode, request, ret, executions,
                           conv0, calls_left, resets_left>>

\* the value the invocation returns (process_message returns the response alone)
return_value(m, resp, last_result) ==
    [response |-> resp, context |-> IF m = "task" THEN last_result ELSE ""]

Returns ==
    /\ pc' = "returned"
    /\ ret' = return_value(mode, response, last_tool_result)
    /\ UNCHANGED <<client, cache, agent_vars, conversation, mode, request,
                   response, iteration_count, last_tool_result, pending, exc,
                   history_vars, calls_left, effort_left, resets_left>>

\* a loop that allows one iteration more
loop_continues_inclusive(count) == count <= MAX_TOOL_ITERATIONS

\* the loop condition iteration_count < max_iterations
loop_continues(count) == count < MAX_TOOL_ITERATIONS

\* process_llm_response raises: the exception leaves the invocation
ParseRaises ==
    /\ pc = "loop"
    /\ loop_continues(iteration_count)
    /\ LET r == process_llm_response(response, Range(tools))
       IN  /\ r.kind = "raise"
           /\ pc' = "raised"
           /\ exc' = r.value
    /\ op' = "raise"
    /\ UNCHANGED <<client, cache, agent_vars, conversation, mode, request,
                   response, iteration_count, last_tool_result, pending, ret,
                   history_vars, calls_left, effort_left, resets_left>>

\* result == response: break, and return
NoToolCall ==
    /\ pc = "loop"
    /\ loop_continues(iteration_count)
    /\ LET r == process_llm_response(response, Range(tools))
       IN  r.kind = "return" /\ r.value = response
    /\ op' = "return"
    /\ Returns

\* process_llm_response returns a text of its own without executing a tool
UnknownTool ==
    /\ pc = "loop"
    /\ loop_continues(iteration_count)
    /\ LET r == process_llm_response(response, Range(tools))
       IN  /\ r.kind = "return"
           /\ r.value # response
           /\ FeedBack(r.value, last_outcome, 0)
    /\ op' = "unknown_tool"

\* process_llm_response awaits execute_tool
Dispatch ==
    /\ pc = "loop"
    /\ loop_continues(iteration_count)
    /\ LET r == process_llm_response(response, Range(tools))
       IN  /\ r.kind = "execute"
           /\ pending' = [tool |-> r.tool, arguments |-> r.arguments]
           /\ executions' = Append(executions, [tool |-> r.tool, arguments |-> r.arguments])
    /\ pc' = "exec"
    /\ op' = "execute_tool"
    /\ UNCHANGED <<client, cache, agent_vars, conversation, mode, request,
                   response, iteration_count, last_tool_result, ret, exc,
                   responses, results, last_messages, last_outcome,
                   llm_requests, conv0,
                   calls_left, effort_left, resets_left>>

\* execute_tool returns or raises; process_llm_response turns that into text
ToolReturns ==
    /\ pc = "exec"
    /\ \E outcome \in ToolOutcomes :
           FeedBack(tool_result_text(outcome), outcome, ToolCost(outcome))
    /\ op' = "iteration"

\* the loop condition fails: the ceiling is reached
CeilingReached ==
    /\ pc = "loop"
    /\ ~loop_continues(iteration_count)
    /\ op' = "ceiling"
    /\ Returns

(***************************************************************************)
(* BaseAgent.cleanup and BaseAgent.reset_conversation.                     *)
(***************************************************************************)
Cleanup ==
    /\ NoInvocation
    /\ resets_left > 0
    /\ initialized' = FALSE
    /\ conversation' = <<>>
    /\ tools_description' = ""
    /\ op' = "cleanup"
    /\ resets_left' = resets_left - 1
    /\ UNCHANGED <<client, cache, tools, pc, frame_vars, history_vars,
                   calls_left, effort_left>>

ResetConversation ==
    /\ NoInvocation
    /\ resets_left > 0
    /\ conversation' = <<>>
    /\ op' = "reset_conversation"
    /\ resets_left' = resets_left - 1
    /\ UNCHANGED <<client, cache, agent_vars, pc, frame_vars, history_vars,
                   calls_left, effort_left>>

\* the parts of the program the agent loop does not touch
other_vars == <<conn_vars, nav_vars, coord_vars, llm_vars, gpt_vars, plan_vars, nest_vars,
     sched_vars>>

Next ==
    \/ ProcessMessageBegin /\ UNCHANGED other_vars
    \/ ProcessTaskBegin /\ UNCHANGED other_vars
    \/ ParseRaises /\ UNCHANGED other_vars
    \/ NoToolCall /\ UNCHANGED other_vars
    \/ UnknownTool /\ UNCHANGED other_vars
    \/ Dispatch /\ UNCHANGED other_vars
    \/ ToolReturns /\ UNCHANGED other_vars
    \/ CeilingReached /\ UNCHANGED other_vars
    \/ Cleanup /\ UNCHANGED other_vars
    \/ ResetConversation /\ UNCHANGED other_vars

Spec == Init /\ [][Next]_vars

(***************************************************************************)
(* Definitions the claims are stated with.                                 *)
(***************************************************************************)
\* The recognition rule of the specification: a text is a tool call iff it
\* parses as one JSON object whose only fields are "tool", a string, and
\* "arguments", a mapping.
IsToolCallByRule(text) ==
    LET v == json_loads(text)
    IN  /\ v.ok
        /\ v.kind = "dict"
        /\ v.keys = {"tool", "arguments"}
        /\ v.tool_kind = "str"
        /\ v.arguments_kind = "dict"

\* the call a tool-call text asks for
CallOf(text) ==
    LET v == json_loads(text) IN [tool |-> v.tool, arguments |-> v.arguments]

\* the exceptions a language-model request can raise
LLMExceptions == {"AttributeError", "Exception", "HTTPStatusError"}

\* an invocation has stopped, and no language-model request of it raised
Stopped == pc \in {"returned", "raised"}
ModelAnswered == exc \notin LLMExceptions

Last(seq) == seq[Len(seq)]

IsPrefix(a, b) == Len(a) <= Len(b) /\ SubSeq(b, 1, Len(a)) = a

\* the number of tool-call texts the responses begin with
RECURSIVE LeadingToolCalls(_)
LeadingToolCalls(texts) ==
    IF texts = <<>> \/ ~IsToolCallByRule(Head(texts)) THEN 0
    ELSE 1 + LeadingToolCalls(Tail(texts))

(***************************************************************************)
(* C1.  If the first language-model response of an invocation is not a     *)
(* tool call, the invocation returns exactly that response, executes no    *)
(* tool and makes exactly one language-model request.                      *)
(* Stated as written, this fails: a first response such as 5 or null is    *)
(* not a tool call, and the invocation raises TypeError instead of         *)
(* returning it; an object with an extra field is not a tool call, and     *)
(* its tool is executed.                                                   *)
(***************************************************************************)
C1_FirstResponseReturned ==
    (Len(responses) >= 1 /\ ~IsToolCallByRule(responses[1]))
        => /\ pc # "raised"
           /\ executions = <<>>
           /\ llm_requests = 1
           /\ pc = "returned" => ret.response = responses[1]

(***************************************************************************)
(* C5.  process_llm_response treats a model output as a tool call if and   *)
(* only if it is a tool call by the recognition rule; every other output   *)
(* is returned unchanged, nothing is executed and nothing is raised.       *)
(* Stated as written, this fails: see C5_* below.  results[i] is what      *)
(* process_llm_response made of responses[i] when it did not return it     *)
(* unchanged.                                                              *)
(***************************************************************************)
C5_RecognitionRule ==
    /\ exc # "TypeError"
    /\ \A i \in 1..Len(results) : IsToolCallByRule(responses[i])
    /\ (pc = "exec") => IsToolCallByRule(response)
    /\ (pc = "returned" /\ op = "return") => ~IsToolCallByRule(response)

(***************************************************************************)
(* C2.  When the responses of an invocation of process_message are K tool  *)
(* calls followed by a response that is not a tool call, with              *)
(* 1 <= K < MAX_TOOL_ITERATIONS, the invocation executes exactly those K   *)
(* calls, in the order they were emitted, and returns the response that    *)
(* follows the K-th tool result.                                           *)
(* Stated as written, and even with every call naming a tool the agent     *)
(* has, this fails: the response after the K-th result may make            *)
(* process_llm_response raise, or be executed (C5).                        *)
(***************************************************************************)
C2_ChainedCalls ==
    LET K == LeadingToolCalls(responses)
    IN  (mode = "message" /\ K >= 1 /\ K < Len(responses)
            /\ K < MAX_TOOL_ITERATIONS /\ ModelAnswered
            /\ \A i \in 1..K : CallOf(responses[i]).tool \in Range(tools))
            => /\ pc \in {"loop", "returned"}
               /\ executions = [i \in 1..K |-> CallOf(responses[i])]
               /\ pc = "returned" => ret.response = responses[K + 1]

(***************************************************************************)
(* C3.  The number of tool-call iterations of one invocation, of           *)
(* process_message or of process_task, never exceeds MAX_TOOL_ITERATIONS,  *)
(* and neither does the number of tool executions; once the ceiling-th     *)
(* iteration has its response, whatever that response is, the invocation   *)
(* parses and executes nothing more, does not raise, and returns that      *)
(* response.                                                               *)
(***************************************************************************)
C3_Ceiling ==
    /\ iteration_count <= MAX_TOOL_ITERATIONS
    /\ Len(executions) <= MAX_TOOL_ITERATIONS
    /\ Len(results) = iteration_count
    /\ (iteration_count = MAX_TOOL_ITERATIONS /\ ModelAnswered /\ pc # "idle")
        => /\ pc \in {"loop", "returned"}
           /\ Len(responses) = MAX_TOOL_ITERATIONS + 1
           /\ pc = "returned"
                => /\ op \in {"ceiling", "cleanup", "reset_conversation"}
                   /\ ret.response = Last(responses)

\* the ceiling is reached with the model still asking for a tool
C3_Witness ==
    /\ pc = "returned"
    /\ mode = "message"
    /\ iteration_count = MAX_TOOL_ITERATIONS
    /\ Len(executions) = MAX_TOOL_ITERATIONS
    /\ IsToolCallByRule(ret.response)

(***************************************************************************)
(* C4.  Every invocation of process_message or process_task eventually     *)
(* returns, whatever texts the model produces, provided every              *)
(* language-model request and every tool execution returns.  A finite run  *)
(* refutes it in this form: an invocation that has stopped has returned,   *)
(* unless a language-model request of it raised.                           *)
(* Stated as written, this fails: the invocation stops by raising          *)
(* TypeError when a response is JSON but not an object (C5).               *)
(***************************************************************************)
C4_AlwaysReturns == (Stopped /\ ModelAnswered) => pc = "returned"

\* the invocation's frame is the latest thing that happened to the agent
InInvocation ==
    /\ pc \in {"loop", "exec", "returned", "raised"}
    /\ op \notin {"cleanup", "reset_conversation"}

(***************************************************************************)
(* C6.  When a tool execution of process_message fails, the invocation     *)
(* does not raise and does not end: the failure is the last message, a     *)
(* system message beginning "Error executing tool:", of the history given  *)
(* to the next language-model request, which is made, and the loop goes    *)
(* on (unless that request itself raises).                                 *)
(***************************************************************************)
C6_ToolFailureFedBack ==
    (mode = "message" /\ op = "iteration" /\ last_outcome.raised)
        => /\ pc = "loop" \/ (pc = "raised" /\ exc \in LLMExceptions)
           /\ Len(last_messages) >= 3
           /\ Last(last_messages).role = "system"
           /\ StartsWith(Last(last_messages).content, "Error executing tool:")
           /\ Last(last_messages).content =
                  Slice("Error executing tool: " \o last_outcome.text,
                        get_max_tool_response_length(client))
           /\ llm_requests = iteration_count + 1
           /\ Last(results) = "Error executing tool: " \o last_outcome.text

\* a tool has failed and the loop goes on with the model's next response
C6_Witness ==
    /\ mode = "message"
    /\ op = "iteration"
    /\ last_outcome.raised
    /\ pc = "loop"
    /\ Len(responses) = 2

(***************************************************************************)
(* C7.  The Conversation after K tool iterations of process_message.       *)
(* ConversationWith(stored) is the conversation the invocation started     *)
(* with, then the user message, then the first response as an assistant    *)
(* message, then for each iteration the messages stored(i) followed by     *)
(* the response that answered it as an assistant message.                  *)
(***************************************************************************)
RECURSIVE IterationMessages(_, _)
IterationMessages(i, stored) ==
    IF i > Len(results) THEN <<>>
    ELSE stored[i]
            \o (IF i + 1 <= Len(responses)
                THEN <<Message("assistant", responses[i + 1])>> ELSE <<>>)
            \o IterationMessages(i + 1, stored)

ConversationWith(stored) ==
    conv0 \o <<Message("user", request)>>
          \o (IF Len(responses) >= 1
              THEN <<Message("assistant", responses[1])>> ELSE <<>>)
          \o IterationMessages(1, stored)

\* the tool result of iteration i as a system message, cut to the client's limit
StoredResult(i) ==
    <<Message("system", Slice(results[i], get_max_tool_response_length(client)))>>

\* C7 as written: for every client, each tool result is stored in the
\* Conversation as a system message before the response that follows it.
\* This fails for ChatGPTLLMClient.
C7_ResultsStoredForEveryClient ==
    (mode = "message" /\ InInvocation)
        => conversation = ConversationWith([i \in 1..Len(results) |-> StoredResult(i)])

\* C7 as amended: for every client that includes tool results in the
\* history (every client but ChatGPTLLMClient) each tool result, cut to the
\* client's maximum tool-response length, is stored as a system message
\* before the response that follows it; with ChatGPTLLMClient the result is
\* given to the next request but not stored, and the Conversation gains
\* only the assistant messages.
C7_ResultsStored ==
    (mode = "message" /\ InInvocation)
        => conversation =
              ConversationWith([i \in 1..Len(results) |->
                  IF include_tool_results_in_history(client)
                  THEN StoredResult(i) ELSE <<>>])

\* two iterations have been stored and the invocation has returned
C7_Witness ==
    /\ mode = "message"
    /\ pc = "returned"
    /\ op = "return"
    /\ include_tool_results_in_history(client)
    /\ iteration_count = 2
    /\ Len(conversation) = Len(conv0) + 6

(***************************************************************************)
(* C8.  The Conversation only grows by appending: in every step that is    *)
(* not cleanup() or reset_conversation(), of any sequence of               *)
(* process_message and process_task invocations, the Conversation before   *)
(* the step is a prefix of the Conversation after it; cleanup() and        *)
(* reset_conversation() empty it, and nothing else does.                   *)
(***************************************************************************)
C8_AppendOnly ==
    [][IF op' \in {"cleanup", "reset_conversation"}
       THEN conversation' = <<>>
       ELSE IsPrefix(conversation, conversation')]_vars

\* a second invocation has extended the conversation the first one left
C8_Witness ==
    /\ calls_left = MaxCalls - 2
    /\ resets_left = MaxResets
    /\ mode = "message"
    /\ pc = "returned"
    /\ conv0 # <<>>
    /\ iteration_count >= 1
    /\ Len(conversation) > Len(conv0) + 2
    /\ IsPrefix(conv0, conversation)

(***************************************************************************)
(* C9.  process_task leaves the agent's Conversation unchanged: at every   *)
(* point of an invocation of process_task, and when it has returned or     *)
(* raised, the Conversation equals the Conversation it was called with.    *)
(***************************************************************************)
C9_TaskLeavesConversation ==
    (mode = "task" /\ InInvocation) => conversation = conv0

\* process_task has run a tool iteration on an agent that has a history
C9_Witness ==
    /\ mode = "task"
    /\ pc = "returned"
    /\ op = "return"
    /\ iteration_count >= 1
    /\ conversation # <<>>
    /\ include_tool_results_in_history(client)

(***************************************************************************)
(* C10.  The context process_task returns.                                 *)
(***************************************************************************)
\* C10 as written: the context is the raw result text of the last tool
\* call executed in the invocation (alone, or as process_llm_response
\* reports it), and is empty exactly when the invocation executed no tool
\* call.  This fails when a call names a tool the agent does not have.
C10_ContextOfLastExecution ==
    (mode = "task" /\ pc = "returned")
        => /\ ret.context = "" <=> executions = <<>>
           /\ executions # <<>>
                => ret.context \in {last_outcome.text, tool_result_text(last_outcome)}

(***************************************************************************)
(* MCPManager (src/mcp_manager.py): one connection to a tool provider,     *)
(* used by coroutines of one event loop.  A step runs from one await to    *)
(* the next.                                                               *)
(***************************************************************************)
MaxWork == 5
MaxRetries == 2

\* the retries argument of execute_tool: any integer, 2 by default
Retries == 0..MaxRetries

\* the config given to the manager: a command that is found, the command
\* npx when shutil.which finds none, a url, or neither key
Configs == {"command", "missing_command", "url", "empty"}

\* what the provider may answer to session.list_tools(), as tool names
ProviderLists == {<<>>, <<"t1">>, <<"t1", "t2">>}

\* what session.call_tool under wait_for may give
CallResults == {"r1", "r2"}
CallErrors == {"ToolError", "TimeoutError"}

\* initialize, lines 25-56: the exception raised before anything is opened
config_error(config) ==
    CASE config = "command" -> ""
      [] config = "missing_command" -> "ValueError"
      [] config = "url" -> "NotImplementedError"
      [] OTHER -> "ValueError"

\* a session handle that is stored only when the connection has none
initialize_session_once(session, id) == IF session = None THEN id ELSE session

\* line 59: self.session = the ClientSession just entered, whatever
\* self.session was
initialize_session(session, id) == id

\* a cleanup that keeps the session handle
cleanup_session_kept(session) == session

\* line 194: self.session = None
cleanup_session(session) == None

\* a loop that allows one attempt more
retries_left_inclusive(attempt, retries) == attempt <= retries

\* lines 154 and 178: attempt < retries
retries_left(attempt, retries) == attempt < retries

\* a loop whose body runs once before its test
enters_loop_always(retries) == TRUE

\* lines 153-154: attempt = 0 and the first test of the while loop
enters_loop(retries) == retries_left(0, retries)

\* the first attempt's error raised instead of the last one's
raised_error_first(errors) == errors[1]

\* line 183: the bare raise re-raises the exception of the attempt that
\* has just failed
raised_error(errors) == errors[Len(errors)]

\* recovery only after a timeout
recovers_on_timeout(error) == error = "TimeoutError"

\* lines 165-177: every Exception of an attempt is followed by a recovery
recovers(error) == TRUE

\* line 110: the list is fetched when self._cached_tools == []
cache_is_unset(cached_tools) == cached_tools = <<>>

\* the operation returns or raises
Done(tk, kind, value) ==
    [tk EXCEPT !.at = "idle", !.outcome = [kind |-> kind, value |-> value]]

\* lines 178-183: after the recovery, sleep and try again, or raise
after_recovery(tk) ==
    IF retries_left(tk.attempt, tk.retries)
    THEN [tk EXCEPT !.at = "sleep"]
    ELSE Done(tk, "raised", raised_error(tk.errors))

\* initialize() returns (error = "") or raises: to its caller, or into the
\* recovery of execute_tool, which logs the exception and goes on (176-177)
after_initialize(tk, error) ==
    IF tk.op = "initialize"
    THEN IF error = "" THEN Done(tk, "returned", "") ELSE Done(tk, "raised", error)
    ELSE after_recovery(tk)

\* initialize() up to its first await (line 47)
start_initialize(tk, config) ==
    LET tk1 == IF tk.op = "execute_tool"
               THEN [tk EXCEPT !.events = Append(@, "initialize")] ELSE tk
    IN  IF config_error(config) # ""
        THEN after_initialize(tk1, config_error(config))
        ELSE [tk1 EXCEPT !.at = "session"]

\* lines 191-196: inside the lock, which is free whenever a coroutine
\* reaches it because the body does not await, the session and the stdio
\* context are dropped; the cached tool list and the exit stack are kept
cleanup_connection(m) ==
    [m EXCEPT !.session = cleanup_session(m.session),
              !.stdio_context = None,
              !.cleanup_lock = None]

\* history: the connection has been cleaned up
cleaned(sn) == [sn EXCEPT !.handshaken = FALSE, !.fetched = FALSE]

\* lines 165-174: an attempt has failed: it is counted, and the recovery
\* runs cleanup() and initialize() up to its first await
failed_attempt(tk, error, config) ==
    LET tk1 == [tk EXCEPT !.attempt = @ + 1,
                          !.errors = Append(@, error),
                          !.events = Append(@, "fail"),
                          !.used = None]
    IN  IF recovers(error)
        THEN start_initialize([tk1 EXCEPT !.events = Append(@, "cleanup")], config)
        ELSE after_recovery(tk1)

\* a coroutine enters an operation of the connection; the frame remembers
\* what the connection had seen, how the coroutine's previous operation
\* ended, and whether no other operation was in progress
Frame(t, opname) ==
    [IdleTask EXCEPT !.op = opname,
                     !.handshaken = seen.handshaken,
                     !.fetched = seen.fetched,
                     !.before = [op |-> task[t].op,
                                 kind |-> task[t].outcome.kind,
                                 attempts |-> task[t].attempt],
                     !.alone = \A u \in Tasks : task[u].at = "idle"]

\* what starting an operation takes from the budget of a run: more for
\* the second coroutine and for every further attempt allowed
Work(t, retries) ==
    (IF t = 1 THEN 1 ELSE 3) + (IF retries > 1 THEN retries - 1 ELSE 0)

Begin(t, retries) ==
    /\ task[t].at = "idle"
    /\ ops_left >= Work(t, retries)
    /\ ops_left' = ops_left - Work(t, retries)

Step(t, name) == latest' = [task |-> t, step |-> name]

\* the parts of the program a connection does not touch
conn_rest == <<vars, nav_vars, coord_vars, llm_vars, gpt_vars, plan_vars, nest_vars,
     sched_vars>>

ConnInit ==
    /\ AgentInit
    /\ client = "Claude"
    /\ NavParked
    /\ CoordParked
    /\ CacheParked
    /\ RateParked
    /\ PlanParked
    /\ NestParked
    /\ SchedParked
    /\ mcp \in {NewMCPManager(config) : config \in Configs}
    /\ task = [t \in Tasks |-> IdleTask]
    /\ seen = NothingSeen
    /\ latest = [task |-> 0, step |-> "init"]
    /\ ops_left = MaxWork

\* MCPManager.initialize called, up to its first await
Initialize(t) ==
    /\ Begin(t, 1)
    /\ task' = [task EXCEPT ![t] = start_initialize(Frame(t, "initialize"), mcp.config)]
    /\ Step(t, "initialize")
    /\ UNCHANGED <<mcp, seen>>

\* lines 47-59: the transport and the ClientSession are entered on the exit
\* stack and the session is stored, or entering the transport raises
EnterSession(t) ==
    /\ task[t].at = "session"
    /\ \E entered \in BOOLEAN :
          IF entered
          THEN /\ mcp' = [mcp EXCEPT !.exit_stack = @ + 2,
                                     !.session = initialize_session(mcp.session,
                                                                   mcp.exit_stack + 2)]
               /\ task' = [task EXCEPT ![t].at = "handshake"]
               /\ UNCHANGED seen
          ELSE /\ task' = [task EXCEPT ![t] = after_initialize(task[t], "TransportError")]
               /\ UNCHANGED <<mcp, seen>>
    /\ Step(t, "enter_session")
    /\ UNCHANGED ops_left

\* lines 61-69: the handshake completes, times out (logged, initialize
\* returns) or fails (logged, raised again)
Handshake(t) ==
    /\ task[t].at = "handshake"
    /\ \E o \in {"ok", "timeout", "error"} :
          /\ seen' = [seen EXCEPT !.handshaken = @ \/ o = "ok"]
          /\ task' = [task EXCEPT ![t] =
                        after_initialize(task[t],
                            IF o = "error" THEN "HandshakeError" ELSE "")]
          /\ Step(t, "handshake_" \o o)
    /\ UNCHANGED <<mcp, ops_left>>

\* MCPManager.cleanup: it has no await that suspends, so it is one step
ConnCleanup(t) ==
    /\ Begin(t, 1)
    /\ mcp' = cleanup_connection(mcp)
    /\ seen' = cleaned(seen)
    /\ task' = [task EXCEPT ![t] = Done(Frame(t, "cleanup"), "returned", "")]
    /\ Step(t, "cleanup")

\* an attempt of coroutine t, whose frame is tk, fails with error
Fails(t, tk, error) ==
    /\ task' = [task EXCEPT ![t] = failed_attempt(tk, error, mcp.config)]
    /\ mcp' = IF recovers(error) THEN cleanup_connection(mcp) ELSE mcp
    /\ seen' = IF recovers(error) THEN cleaned(seen) ELSE seen

\* lines 154-160: self.session.call_tool(...) on the session of this moment;
\* on None it raises AttributeError, which the except clause catches
Attempt(t, tk) ==
    IF mcp.session = None
    THEN Fails(t, tk, "AttributeError") /\ Step(t, "absent_session")
    ELSE /\ task' = [task EXCEPT ![t] = [tk EXCEPT !.at = "call", !.used = mcp.session]]
         /\ Step(t, "call")
         /\ UNCHANGED <<mcp, seen>>

\* MCPManager.list_tools called: lines 105-111, up to the await or the return
ListTools(t) ==
    /\ Begin(t, 1)
    /\ task' = [task EXCEPT ![t] =
                  IF mcp.session = None
                  THEN Done(Frame(t, "list_tools"), "raised", "RuntimeError")
                  ELSE IF cache_is_unset(mcp.cached_tools)
                       THEN [Frame(t, "list_tools") EXCEPT !.at = "fetch",
                                                       !.used = mcp.session]
                       ELSE Done([Frame(t, "list_tools") EXCEPT !.listed = mcp.cached_tools],
                                 "returned", "")]
    /\ Step(t, "list_tools")
    /\ UNCHANGED <<mcp, seen>>

\* lines 111-123: the provider's answer is stored and returned, or the
\* request raises
ListFetched(t) ==
    /\ task[t].at = "fetch"
    /\ \/ \E answer \in ProviderLists :
             /\ mcp' = [mcp EXCEPT !.cached_tools = answer]
             /\ seen' = [seen EXCEPT !.fetched = TRUE]
             /\ task' = [task EXCEPT ![t] =
                           Done([task[t] EXCEPT !.listed = answer,
                                                !.source = task[t].used],
                                "returned", "")]
       \/ /\ task' = [task EXCEPT ![t] = Done(task[t], "raised", "ProviderError")]
          /\ UNCHANGED <<mcp, seen>>
    /\ Step(t, "list_fetched")
    /\ UNCHANGED ops_left

\* MCPManager.execute_tool called: lines 149-160, up to the first await;
\* when the loop of line 154 is not entered the method ends without a
\* return statement
ExecuteTool(t) ==
    \E retries \in Retries :
        /\ Begin(t, retries)
        /\ IF mcp.session = None
           THEN /\ task' = [task EXCEPT ![t] =
                              Done([Frame(t, "execute_tool") EXCEPT !.retries = retries],
                                   "raised", "RuntimeError")]
                /\ Step(t, "not_initialized")
                /\ UNCHANGED <<mcp, seen>>
           ELSE IF enters_loop(retries)
                THEN Attempt(t, [Frame(t, "execute_tool") EXCEPT !.retries = retries])
                ELSE /\ task' = [task EXCEPT ![t] =
                                   Done([Frame(t, "execute_tool") EXCEPT !.retries = retries],
                                        "returned", "None")]
                     /\ Step(t, "no_attempt")
                     /\ UNCHANGED <<mcp, seen>>

\* lines 157-174: the call returns its result, or fails or times out
CallDone(t) ==
    /\ task[t].at = "call"
    /\ \/ \E result \in CallResults :
             /\ task' = [task EXCEPT ![t] =
                           Done([task[t] EXCEPT !.events = Append(@, result)],
                                "returned", result)]
             /\ Step(t, "call_returned")
             /\ UNCHANGED <<mcp, seen>>
       \/ \E error \in CallErrors :
             /\ Fails(t, task[t], error)
             /\ Step(t, "call_failed")
    /\ UNCHANGED ops_left

\* line 180 has slept: the loop makes the next attempt
SleepDone(t) ==
    /\ task[t].at = "sleep"
    /\ Attempt(t, task[t])
    /\ UNCHANGED ops_left

ConnNext ==
    \/ \E t \in Tasks : Initialize(t) /\ UNCHANGED conn_rest
    \/ \E t \in Tasks : EnterSession(t) /\ UNCHANGED conn_rest
    \/ \E t \in Tasks : Handshake(t) /\ UNCHANGED conn_rest
    \/ \E t \in Tasks : ConnCleanup(t) /\ UNCHANGED conn_rest
    \/ \E t \in Tasks : ListTools(t) /\ UNCHANGED conn_rest
    \/ \E t \in Tasks : ListFetched(t) /\ UNCHANGED conn_rest
    \/ \E t \in Tasks : ExecuteTool(t) /\ UNCHANGED conn_rest
    \/ \E t \in Tasks : CallDone(t) /\ UNCHANGED conn_rest
    \/ \E t \in Tasks : SleepDone(t) /\ UNCHANGED conn_rest

ConnSpec == ConnInit /\ [][ConnNext]_<<conn_vars, conn_rest>>

(***************************************************************************)
(* Claims about MCPManager.                                                *)
(***************************************************************************)
\* the call attempts among the events of an execute_tool
Attempts(events) == SelectSeq(events, LAMBDA e : e \notin {"cleanup", "initialize"})

\* the recovery steps among them
Recoveries(events) == SelectSeq(events, LAMBDA e : e \in {"cleanup", "initialize"})

\* an execute_tool call that found a session has ended
Executed(t) ==
    /\ task[t].op = "execute_tool"
    /\ task[t].at = "idle"
    /\ task[t].events # <<>>

(***************************************************************************)
(* C11.  An execute_tool with retries = 2 whose first attempt fails (by    *)
(* error or timeout) and whose second attempt succeeds returns the second  *)
(* attempt's result, and performs exactly one recovery cycle between the   *)
(* two: one cleanup followed by one initialize.                            *)
(***************************************************************************)
C11_RetrySuccess ==
    \A t \in Tasks :
        (/\ Executed(t)
         /\ task[t].retries = 2
         /\ Len(Attempts(task[t].events)) = 2
         /\ Attempts(task[t].events)[1] = "fail"
         /\ Attempts(task[t].events)[2] \in CallResults)
            => /\ task[t].outcome = [kind |-> "returned",
                                     value |-> Attempts(task[t].events)[2]]
               /\ task[t].events =
                     <<"fail", "cleanup", "initialize", task[t].outcome.value>>

\* the first attempt has timed out and the second has returned a result
C11_Witness ==
    \E t \in Tasks :
        /\ Executed(t)
        /\ task[t].retries = 2
        /\ task[t].errors = <<"TimeoutError">>
        /\ task[t].outcome.kind = "returned"
        /\ Len(task[t].events) = 4

(***************************************************************************)
(* C12.  An execute_tool with retries = 2 whose two attempts fail raises   *)
(* the failure to its caller; and when the caller then calls initialize()  *)
(* and the provider is reachable (the transport opens and the handshake    *)
(* completes), initialize() returns and the connection is usable again:    *)
(* it holds the session just opened.                                       *)
(***************************************************************************)
C12_RetryExhaustion ==
    \A t \in Tasks :
        /\ (/\ Executed(t)
            /\ task[t].retries = 2
            /\ Attempts(task[t].events) = <<"fail", "fail">>)
              => task[t].outcome = [kind |-> "raised", value |-> task[t].errors[2]]
        /\ (/\ latest = [task |-> t, step |-> "handshake_ok"]
            /\ task[t].op = "initialize"
            /\ task[t].before = [op |-> "execute_tool", kind |-> "raised", attempts |-> 2])
              => /\ task[t].outcome.kind = "returned"
                 /\ mcp.session # None
                 /\ mcp.session = mcp.exit_stack
                 /\ seen.handshaken

\* both attempts have failed, the failure was raised, and the caller's
\* next initialize() has just completed its handshake
C12_Witness ==
    \E t \in Tasks :
        /\ latest = [task |-> t, step |-> "handshake_ok"]
        /\ task[t].op = "initialize"
        /\ task[t].before = [op |-> "execute_tool", kind |-> "raised", attempts |-> 2]
        /\ task[t].outcome.kind = "returned"

(***************************************************************************)
(* C13.  For every retries >= 1, an execute_tool call on a connection that *)
(* has a session makes at least one and at most retries call attempts,     *)
(* one after another; every failed attempt is followed by a cleanup and    *)
(* then an initialize before the next attempt or the raise; and when every *)
(* attempt fails, the error raised is the error of the last attempt.       *)
(***************************************************************************)
\* attempts and recoveries alternate: fail, cleanup, initialize, ..., and
\* a result can only come last
RECURSIVE Sequential(_)
Sequential(events) ==
    IF events = <<>> THEN TRUE
    ELSE IF events[1] \in CallResults THEN Len(events) = 1
    ELSE /\ Len(events) >= 3
         /\ SubSeq(events, 1, 3) = <<"fail", "cleanup", "initialize">>
         /\ Sequential(SubSeq(events, 4, Len(events)))

C13_BoundedSequentialRetries ==
    \A t \in Tasks :
        /\ task[t].op = "execute_tool" => task[t].attempt <= task[t].retries
        /\ Executed(t)
             => /\ Sequential(task[t].events)
                /\ Len(Attempts(task[t].events)) >= 1
                /\ Len(Attempts(task[t].events)) <= task[t].retries
                /\ task[t].outcome.kind = "raised"
                     => /\ Len(task[t].errors) = task[t].retries
                        /\ Len(Attempts(task[t].events)) = task[t].retries
                        /\ task[t].outcome.value = task[t].errors[Len(task[t].errors)]

\* two attempts have failed with different errors and the second was raised
C13_Witness ==
    \E t \in Tasks :
        /\ Executed(t)
        /\ task[t].retries = 2
        /\ task[t].errors = <<"ToolError", "TimeoutError">>
        /\ task[t].outcome = [kind |-> "raised", value |-> "TimeoutError"]

(***************************************************************************)
(* C14.  A list_tools or execute_tool call that begins, with no other      *)
(* operation in progress, when no session handshake has completed since    *)
(* the connection was created or last cleaned up fails with the            *)
(* not-initialized error (RuntimeError) at once and uses no session.  The  *)
(* code does not have this property: an initialize() whose handshake       *)
(* failed or timed out leaves a session.                                   *)
(***************************************************************************)
C14_NotInitializedFails ==
    \A t \in Tasks :
        (/\ task[t].op \in {"list_tools", "execute_tool"}
         /\ task[t].alone
         /\ ~task[t].handshaken)
            => /\ task[t].at = "idle"
               /\ task[t].outcome = [kind |-> "raised", value |-> "RuntimeError"]
               /\ task[t].used = None

(***************************************************************************)
(* C15.  Dropping the session and using it are mutually exclusive: while   *)
(* an execute_tool call is in flight (a coroutine waits for call_tool on   *)
(* the session) no cleanup() drops the connection's session.  The code     *)
(* does not have this property: execute_tool does not take the lock.       *)
(***************************************************************************)
C15_SessionHeldWhileInUse ==
    \A t \in Tasks : task[t].at = "call" => mcp.session # None

(***************************************************************************)
(* C16.  cleanup() is idempotent and safe when interleaved with itself:    *)
(* every step that runs a cleanup (a call of cleanup(), or the cleanup of  *)
(* a recovery) leaves no session, no stdio context and a free lock and     *)
(* changes nothing else of the connection, so on a connection already      *)
(* cleaned up it changes nothing at all; and every cleanup() call returns  *)
(* without raising.                                                        *)
(***************************************************************************)
C16_CleanupIdempotent ==
    [][/\ \A t \in Tasks : task'[t].op = "cleanup"
                               => task'[t].outcome = [kind |-> "returned", value |-> ""]
       /\ mcp'.cleanup_lock = None
       /\ (latest' # latest /\ latest'.step \in {"cleanup", "call_failed", "absent_session"})
            => /\ mcp' = [mcp EXCEPT !.session = None, !.stdio_context = None]
               /\ mcp.session = None => mcp' = mcp]_conn_vars

\* interleaved cleanup() calls of two coroutines on a connection that had a
\* session: the second has just run, on a connection already cleaned up
C16_Witness ==
    /\ latest.step = "cleanup"
    /\ \A t \in Tasks : task[t].op = "cleanup" /\ task[t].outcome.kind = "returned"
    /\ mcp.exit_stack > 0
    /\ mcp.session = None

(***************************************************************************)
(* C17.  A list_tools call that begins, with no other operation in         *)
(* progress, after a tool list has been fetched since the last cleanup     *)
(* returns the cached list without contacting the provider, whatever list  *)
(* was fetched.  The code does not have this property when the provider's  *)
(* list is empty.                                                          *)
(***************************************************************************)
C17_FetchedOnce ==
    \A t \in Tasks :
        (task[t].op = "list_tools" /\ task[t].alone /\ task[t].fetched)
            => /\ task[t].at # "fetch"
               /\ task[t].source = None

(***************************************************************************)
(* C18.  A list_tools call that begins, with no other operation in         *)
(* progress, when no list has been fetched since the last cleanup (the     *)
(* session is one initialized after it) and that returns a list has        *)
(* fetched it from the live session.  The code does not have this          *)
(* property: cleanup() keeps the cached list.                              *)
(***************************************************************************)
C18_CacheInvalidated ==
    \A t \in Tasks :
        (/\ task[t].op = "list_tools"
         /\ task[t].alone
         /\ ~task[t].fetched
         /\ task[t].at = "idle"
         /\ task[t].outcome.kind = "returned")
            => task[t].source # None

(***************************************************************************)
(* NavigationAgent (src/navigationagent.py): the agent that owns the       *)
(* servers and finds the server of a tool call.  One coroutine uses it, so *)
(* a step runs from the call of a server's operation to its end.           *)
(***************************************************************************)
MaxDispatches == 3

\* the tool names a call may carry
NavTools == {"t1", "t2"}

\* MCPManager.list_tools run to its end on one server, by a single
\* coroutine: not initialized, the cached list, or the provider's answer
\* (which becomes the cached list) unless the request fails
listing(server, answer, fetch_ok) ==
    IF server.session = None
    THEN [raised |-> TRUE, tools |-> <<>>, server |-> server]
    ELSE IF cache_is_unset(server.cached_tools)
         THEN IF fetch_ok
              THEN [raised |-> FALSE, tools |-> answer,
                    server |-> [server EXCEPT !.cached_tools = answer]]
              ELSE [raised |-> TRUE, tools |-> <<>>, server |-> server]
         ELSE [raised |-> FALSE, tools |-> server.cached_tools, server |-> server]

\* what MCPManager.execute_tool run to its end leaves of the session: the
\* same one when no attempt failed; after a failed attempt the recovery has
\* dropped it and opened a new one, or failed to
ExecutionEnds ==
    {[raised |-> FALSE, session |-> "kept"], [raised |-> FALSE, session |-> "renewed"],
     [raised |-> TRUE, session |-> "renewed"], [raised |-> TRUE, session |-> "lost"]}

after_execute(server, end) ==
    CASE end.session = "kept" -> server
      [] end.session = "renewed" -> [server EXCEPT !.session = @ + 1]
      [] OTHER -> [server EXCEPT !.session = None]

\* lines 110-117: the except clause logs whatever listing or executing
\* raised and the for loop goes on with the next server; after the last
\* one, line 117 raises
advance(nv) ==
    IF nv.i + 1 \in nv.held
    THEN [nv EXCEPT !.at = "list", !.i = @ + 1]
    ELSE [nv EXCEPT !.at = "idle",
                    !.outcome = [kind |-> "raised", value |-> "RuntimeError"]]

NavInit ==
    /\ AgentInit
    /\ client = "Claude"
    /\ ConnParked
    /\ CoordParked
    /\ CacheParked
    /\ RateParked
    /\ PlanParked
    /\ NestParked
    /\ SchedParked
    /\ servers = [s \in Servers |-> [session |-> None, cached_tools |-> <<>>]]
    /\ declared \in [Servers -> ProviderLists]
    /\ nav = NavIdle
    /\ nav_left = MaxDispatches

\* how MCPManager.initialize of one server ends (src/mcp_manager.py:23-69):
\* it returns with a session open; the handshake times out, which is
\* logged, and it returns all the same; the handshake raises, after the
\* session was assigned; or the config or the transport raises before
InitializeEnds == {"ok", "timeout", "handshake_error", "no_transport"}

initialize_raises(how) == how \in {"handshake_error", "no_transport"}

\* the fields of the agent a call of one of its methods starts from
NavCalled(nv) ==
    [NavIdle EXCEPT !.initialized = nv.initialized, !.tools = nv.tools,
                    !.tools_description = nv.tools_description,
                    !.unreached = nv.unreached,
                    !.held = nv.held, !.cleaned = nv.cleaned]

RECURSIVE Concat(_, _)
Concat(lists, n) ==
    IF n = 0 THEN <<>> ELSE Concat(lists, n - 1) \o lists[n]

\* NavigationAgent.initialize: every server is initialized in order, the
\* first failure raises RuntimeError; then BaseAgent.initialize, unless the
\* agent is initialized already, takes as the agent's tools what get_tools
\* gathers: the lists of the servers whose list_tools did not raise
NavInitialize ==
    /\ nav.at = "idle"
    /\ nav_left > 0
    /\ nav_left' = nav_left - 1
    /\ \E how \in [Servers -> InitializeEnds], answers \in [Servers -> BOOLEAN] :
          LET failing == {s \in nav.held : initialize_raises(how[s])}
              opened == [s \in Servers |->
                            IF /\ s \in nav.held
                               /\ \A f \in failing : s <= f
                               /\ how[s] # "no_transport"
                            THEN [servers[s] EXCEPT !.session = @ + 1]
                            ELSE servers[s]]
              lists == [s \in Servers |->
                            listing(opened[s], declared[s], answers[s])]
              gathered == [s \in Servers |->
                            IF s \notin nav.held \/ lists[s].raised
                            THEN <<>> ELSE lists[s].tools]
              all_tools == Concat(gathered, Cardinality(Servers))
              first_time == failing = {} /\ ~nav.initialized
          IN  /\ servers' = IF first_time
                            THEN [s \in Servers |->
                                    IF s \in nav.held THEN lists[s].server
                                    ELSE servers[s]]
                            ELSE opened
              /\ nav' = [NavCalled(nav) EXCEPT
                           !.op = "initialize",
                           !.initialized = nav.initialized \/ failing = {},
                           !.tools = IF first_time THEN all_tools ELSE nav.tools,
                           !.tools_description =
                              IF first_time THEN describe_tools(all_tools)
                              ELSE nav.tools_description,
                           !.unreached =
                              IF first_time
                              THEN {s \in nav.held : how[s] = "timeout" \/ lists[s].raised}
                              ELSE nav.unreached,
                           !.outcome =
                              IF failing = {}
                              THEN [kind |-> "returned", value |-> ""]
                              ELSE [kind |-> "raised", value |-> "RuntimeError"]]
    /\ UNCHANGED declared

\* NavigationAgent.execute_tool called: the loop starts with the first
\* server the agent holds, and with none line 117 raises at once
NavExecuteTool ==
    /\ nav.at = "idle"
    /\ nav_left > 0
    /\ nav_left' = nav_left - 1
    /\ \E tool \in NavTools :
          nav' = advance([NavCalled(nav) EXCEPT !.op = "execute_tool",
                                                !.tool = tool])
    /\ UNCHANGED <<servers, declared>>

\* lines 112-114: the server's tools are listed; when the tool is among
\* them the server's execute_tool is called, otherwise (or when listing
\* raised) the loop goes on
NavList ==
    /\ nav.at = "list"
    /\ \E fetch_ok \in BOOLEAN :
          LET l == listing(servers[nav.i], declared[nav.i], fetch_ok)
              nv == [nav EXCEPT !.listed = Append(@, nav.i)]
          IN  /\ servers' = [servers EXCEPT ![nav.i] = l.server]
              /\ nav' = IF ~l.raised /\ nav.tool \in Range(l.tools)
                        THEN [nv EXCEPT !.at = "exec", !.invoked = Append(@, nav.i)]
                        ELSE advance(nv)
    /\ UNCHANGED <<declared, nav_left>>

\* lines 114-116: the server's execute_tool returns, which ends the call,
\* or raises after its retries, which is logged
NavExecuteDone ==
    /\ nav.at = "exec"
    /\ \E end \in ExecutionEnds :
          /\ servers' = [servers EXCEPT ![nav.i] = after_execute(@, end)]
          /\ nav' = IF end.raised
                    THEN advance(nav)
                    ELSE [nav EXCEPT !.at = "idle",
                                     !.outcome = [kind |-> "returned", value |-> "r1"]]
    /\ UNCHANGED <<declared, nav_left>>

\* the servers kept by a cleanup that forgets none
servers_after_cleanup_kept(held) == held

\* line 88: self.servers = []
servers_after_cleanup(held) == {}

\* NavigationAgent.cleanup, lines 79-89: BaseAgent.cleanup (which keeps
\* self.tools), then the cleanup of every server, which drops its session
\* and keeps its cached tool list, then the list of servers is emptied
NavCleanup ==
    /\ nav.at = "idle"
    /\ nav_left > 0
    /\ nav_left' = nav_left - 1
    /\ servers' = [s \in Servers |->
                     IF s \in nav.held
                     THEN [servers[s] EXCEPT !.session = cleanup_session(@)]
                     ELSE servers[s]]
    /\ nav' = [NavCalled(nav) EXCEPT
                 !.op = "cleanup",
                 !.initialized = FALSE,
                 !.tools_description = "",
                 !.held = servers_after_cleanup(nav.held),
                 !.cleaned = TRUE,
                 !.outcome = [kind |-> "returned", value |-> ""]]
    /\ UNCHANGED declared

\* the parts of the program the navigation agent's dispatch does not touch
nav_rest == <<vars, conn_vars, coord_vars, llm_vars, gpt_vars, plan_vars, nest_vars,
     sched_vars>>

NavNext ==
    \/ NavInitialize /\ UNCHANGED nav_rest
    \/ NavExecuteTool /\ UNCHANGED nav_rest
    \/ NavList /\ UNCHANGED nav_rest
    \/ NavExecuteDone /\ UNCHANGED nav_rest
    \/ NavCleanup /\ UNCHANGED nav_rest

NavSpec == NavInit /\ [][NavNext]_<<nav_vars, nav_rest>>

(***************************************************************************)
(* C19.  A tool call dispatched by NavigationAgent.execute_tool is invoked *)
(* on at most one server, and on no other server even when that            *)
(* invocation fails; and when no server declares the tool, it is invoked   *)
(* on none and the call fails.  The code does not have this property: a    *)
(* failed invocation is logged and the next server is tried.               *)
(***************************************************************************)
C19_SingleOwner ==
    /\ Len(nav.invoked) <= 1
    /\ (\A s \in Servers : nav.tool \notin Range(declared[s])) => nav.invoked = <<>>

(***************************************************************************)
(* ConversationAgent (src/conversationagent.py): the coordinating agent,   *)
(* whose two tools are the navigation and the page-analysis sub-agents.    *)
(* Its tool calls come one after another from its own loop.  A sub-agent's *)
(* process_task is taken by what it returns or raises.                     *)
(***************************************************************************)
MaxCoordCalls == 4

\* TaskResult.context of a sub-agent: the text of its last tool result, or
\* the empty string when it called no tool (src/baseagent.py:144, 157, 169)
Contexts == {"", "Tool execution result: page1", "Tool execution result: page2"}

\* TaskResult.response: the last answer of the sub-agent's LLM
Responses == {"done", "sorry"}

TaskResults == [response : Responses, context : Contexts]

saved_page_context_response(webtask_result) == webtask_result.response

\* src/conversationagent.py:40
saved_page_context(webtask_result) == webtask_result.context

\* PageAnalysisAgent.get_system_prompt, lines 16-17: the context is
\* formatted into the first line of the prompt
page_analysis_prompt(page_context) ==
    <<"PAGE CONTEXT INFORMATION ", page_context, ".">>

CoordInit ==
    /\ AgentInit
    /\ client = "Claude"
    /\ ConnParked
    /\ NavParked
    /\ CacheParked
    /\ RateParked
    /\ PlanParked
    /\ NestParked
    /\ SchedParked
    /\ coord = CoordNew
    /\ coord_left = MaxCoordCalls

\* lines 38-42: the navigation sub-agent returns; its context is kept and
\* its response is the tool's result
CoordNavigation ==
    /\ coord_left > 0
    /\ coord_left' = coord_left - 1
    /\ \E webtask_result \in TaskResults :
          coord' = [coord EXCEPT
                       !.page_context = saved_page_context(webtask_result),
                       !.returned = webtask_result.context,
                       !.navigations = @ + 1,
                       !.latest = "navigation",
                       !.outcome = [kind |-> "returned",
                                    value |-> webtask_result.response]]

\* line 39 raises (the sub-agent's LLM client or its initialization failed):
\* line 40 is not reached
CoordNavigationRaises ==
    /\ coord_left > 0
    /\ coord_left' = coord_left - 1
    /\ coord' = [coord EXCEPT
                    !.latest = "navigation_raised",
                    !.outcome = [kind |-> "raised", value |-> "Exception"]]

\* lines 43-47: the page-analysis sub-agent is given the kept context, and
\* its process_task builds its system message from it (baseagent.py:138)
\* before it asks the LLM
CoordPageAnalysis ==
    /\ coord_left > 0
    /\ coord_left' = coord_left - 1
    /\ \E page_analysis_result \in TaskResults, raises \in BOOLEAN :
          coord' = [coord EXCEPT
                       !.analysis_page_context = coord.page_context,
                       !.prompt = page_analysis_prompt(coord.page_context),
                       !.latest = "analysis",
                       !.outcome =
                          IF raises
                          THEN [kind |-> "raised", value |-> "Exception"]
                          ELSE [kind |-> "returned",
                                value |-> page_analysis_result.response]]

\* lines 48-49
CoordUnknownTool ==
    /\ coord_left > 0
    /\ coord_left' = coord_left - 1
    /\ coord' = [coord EXCEPT
                    !.latest = "unknown_tool",
                    !.outcome = [kind |-> "raised", value |-> "ValueError"]]

\* the parts of the program the coordinator's dispatch does not touch
coord_rest == <<vars, conn_vars, nav_vars, llm_vars, gpt_vars, plan_vars, nest_vars,
     sched_vars>>

CoordNext ==
    \/ CoordNavigation /\ UNCHANGED coord_rest
    \/ CoordNavigationRaises /\ UNCHANGED coord_rest
    \/ CoordPageAnalysis /\ UNCHANGED coord_rest
    \/ CoordUnknownTool /\ UNCHANGED coord_rest

CoordSpec == CoordInit /\ [][CoordNext]_<<coord_vars, coord_rest>>

(***************************************************************************)
(* C20.  In the coordinating agent, at every invocation of the             *)
(* page-analysis sub-agent after a navigation has returned, the page       *)
(* context the sub-agent is given, and the one its prompt is built from,   *)
(* is the context returned by the most recent invocation of the navigation *)
(* sub-agent that returned, whatever the order of the navigation and       *)
(* page-analysis tool calls.                                               *)
(***************************************************************************)
C20_AnalysisGivenLatestContext ==
    (coord.latest = "analysis" /\ coord.navigations > 0) =>
        /\ coord.analysis_page_context = coord.returned
        /\ coord.prompt = page_analysis_prompt(coord.returned)

\* a page analysis after two navigations, the later of which returned the
\* context of the second page
C20_Witness ==
    /\ coord.latest = "analysis"
    /\ coord.navigations >= 2
    /\ coord.returned = "Tool execution result: page2"
    /\ coord.analysis_page_context = "Tool execution result: page2"

(***************************************************************************)
(* The response cache of LLMClient (src/llm_client.py, lines 24-60): the   *)
(* constructor loads cache.json, get_response answers from the cache or    *)
(* asks the model, stores the answer and rewrites the file.                *)
(***************************************************************************)
MaxAsks == 3

\* what the store file may hold when a client is constructed
StoredEntry == CacheValue("dict", cache_put(<<>>, cache_key("p1", AskedMessages), PLAIN))
Stores ==
    {AbsentStore, [kind |-> "not_json", value |-> EmptyCache],
     [kind |-> "undecodable", value |-> EmptyCache],
     Dumped(EmptyCache), Dumped(StoredEntry),
     Dumped(CacheValue("list", <<>>)), Dumped(CacheValue("str", <<>>)),
     Dumped(CacheValue("int", <<>>)), Dumped(CacheValue("NoneType", <<>>))}

\* what the model does when asked
AskedRaws ==
    {[kind |-> "ok", text |-> PLAIN], [kind |-> "ok", text |-> TC_T1],
     [kind |-> "transport", text |-> ""], [kind |-> "status", text |-> ""]}

\* LLMClient.get_response on the cache the constructor loaded, whatever
\* its type.  On a dict it is get_response.  "key in cache" raises
\* TypeError on an int and on None; on a list and on a str (that does not
\* hold the key) it is False, the model is asked, and storing its answer
\* raises TypeError (line 54), unless the answer is classified as an error
\* and is returned unstored.
get_response_on(c, held, system_prompt, messages, raw) ==
    LET g == get_response(c, held.map, system_prompt, messages, raw)
        r == get_response_from_LLM(c, raw)
    IN  IF held.kind = "dict"
        THEN [raised |-> g.raised, response |-> g.response,
              cache |-> CacheValue("dict", g.cache), invoked |-> g.invoked]
        ELSE IF held.kind \notin {"list", "str"}
        THEN [raised |-> TRUE, response |-> "TypeError", cache |-> held,
              invoked |-> FALSE]
        ELSE IF r.raised
        THEN [raised |-> TRUE, response |-> r.text, cache |-> held, invoked |-> TRUE]
        ELSE IF is_error_response(r.text)
        THEN [raised |-> FALSE, response |-> r.text, cache |-> held, invoked |-> TRUE]
        ELSE [raised |-> TRUE, response |-> "TypeError", cache |-> held,
              invoked |-> TRUE]

\* the client turned a timeout or a transport error into a returned text
transient_failure(g, raw) == raw.kind = "transport" /\ ~g.raised /\ g.invoked

CacheInit ==
    /\ AgentInit
    /\ client = "ChatGPT"
    /\ ConnParked
    /\ NavParked
    /\ CoordParked
    /\ RateParked
    /\ PlanParked
    /\ NestParked
    /\ SchedParked
    /\ store \in Stores
    /\ \E c \in Instantiable : lc = NewLLMClient(c, store)
    /\ lc_left = MaxAsks

\* one get_response(system_prompt, messages) of the client.  The file is
\* rewritten (lines 55-59) when the model call returned; a failure to
\* write is logged.
GetResponse ==
    /\ lc.alive
    /\ lc_left > 0
    /\ lc_left' = lc_left - 1
    /\ \E p \in Prompts, raw \in AskedRaws, written \in BOOLEAN :
          LET g == get_response_on(lc.class, lc.cache, p, AskedMessages, raw)
              out == [kind |-> IF g.raised THEN "raised" ELSE "returned",
                      value |-> g.response]
              h == lc.hist[p]
          IN  /\ lc' = [lc EXCEPT
                    !.cache = g.cache,
                    !.hist[p] =
                        [calls |-> h.calls + 1,
                         invoked |-> h.invoked + (IF g.invoked THEN 1 ELSE 0),
                         first |-> IF h.calls = 0 THEN out ELSE h.first,
                         failures |-> IF transient_failure(g, raw)
                                      THEN h.failures \cup {g.response}
                                      ELSE h.failures],
                    !.latest =
                        [prompt |-> p, kind |-> out.kind, value |-> out.value,
                         invoked |-> g.invoked, raw |-> raw.kind, before |-> h]]
              /\ store' = IF g.invoked /\ ~g.raised /\ written
                          THEN Dumped(g.cache)
                          ELSE store

\* the program is started again: a new client is constructed, which loads
\* what the file holds now
Restart ==
    /\ lc_left > 0
    /\ lc_left' = lc_left - 1
    /\ \E c \in Instantiable : lc' = NewLLMClient(c, store)
    /\ UNCHANGED store

\* the parts of the program the cache does not touch
llm_rest == <<vars, conn_vars, nav_vars, coord_vars, gpt_vars, plan_vars, nest_vars,
     sched_vars>>

CacheNext ==
    \/ GetResponse /\ UNCHANGED llm_rest
    \/ Restart /\ UNCHANGED llm_rest

CacheSpec == CacheInit /\ [][CacheNext]_<<llm_vars, llm_rest>>

\* the entries of a cache or of a store file that holds a mapping
Entries(value) == IF value.kind = "dict" THEN Range(value.map) ELSE {}

Asked(p) == lc.latest.prompt = p /\ lc.hist[p].calls >= 2

C22_NoErrorStored ==
    \A v \in Entries(lc.cache) \cup Entries(store.value) : ~is_error_response(v)

\* the local model timed out: the timeout text was returned, the file was
\* written, and neither the cache nor the file holds the text
C22_Witness ==
    /\ lc.latest.kind = "returned"
    /\ lc.latest.invoked
    /\ lc.latest.value = TIMEOUT_TEXT
    /\ lc.loaded = AbsentStore
    /\ lc.cache.kind = "dict"
    /\ store = Dumped(lc.cache)
    /\ DOMAIN lc.cache.map # {}

\* the texts transient failures of earlier calls with the latest request
\* were turned into
EarlierFailures == lc.latest.before.failures

(***************************************************************************)
(* C23.  A transient failure of the model call that the client turned into *)
(* a returned text is never cached: no later get_response with the same    *)
(* system prompt and history returns the failure text without invoking the *)
(* model.  The code does not have this property: only the local model's    *)
(* timeout text is kept out of the cache.                                  *)
(***************************************************************************)
C23_TransientFailureNotCached ==
    ~(/\ lc.latest.kind = "returned"
      /\ ~lc.latest.invoked
      /\ lc.latest.value \in EarlierFailures)

\* a store file that is absent or whose content is corrupt
Corrupt(file) == file.kind # "json" \/ file.value.kind # "dict"

(***************************************************************************)
(* C24.  Loading the cache is never fatal: when the store file is absent   *)
(* or corrupt (not parseable, or parseable but not a mapping), the         *)
(* constructor returns, the client holds a mapping, and no get_response    *)
(* raises because of the cache.  The code does not have this property.     *)
(***************************************************************************)
C24_LoadNeverFatal ==
    Corrupt(lc.loaded) =>
        /\ lc.alive
        /\ lc.cache.kind = "dict"
        /\ ~(lc.latest.kind = "raised" /\ lc.latest.value = "TypeError")

(***************************************************************************)
(* ChatGPTLLMClient.get_response_from_LLM (src/llm_client.py, lines        *)
(* 320-400): up to four POSTs, with a sleep after a rate-limited one.  A   *)
(* step is one POST with what follows it up to the next POST.  Times are   *)
(* in milliseconds.                                                        *)
(***************************************************************************)
MaxGptCalls == 2

\* for attempt in range(4)
Attempts4 == 4

\* the x-ratelimit-reset-tokens header of an answer, "" when it has none
ResetHeaders == {"", "1s", "500ms", "2m", "0s", "3"}

EndsWith(s, suffix) ==
    /\ Len(s) >= Len(suffix)
    /\ SubSeq(s, Len(s) - Len(suffix) + 1, Len(s)) = suffix

DropLast(s, n) == SubSeq(s, 1, Len(s) - n)

\* float() of the numbers of this model, times 1000
float_ms(text) ==
    CASE text = "0" -> 0
      [] text = "1" -> 1000
      [] text = "2" -> 2000
      [] text = "3" -> 3000
      [] text = "500" -> 500000

\* ChatGPTLLMClient.parse_delay, lines 302-318 (the headers of this model
\* are stripped and in lower case)
parse_delay(header_value) ==
    IF EndsWith(header_value, "ms") THEN float_ms(DropLast(header_value, 2)) \div 1000
    ELSE IF EndsWith(header_value, "m") THEN float_ms(DropLast(header_value, 1)) * 60
    ELSE IF EndsWith(header_value, "s") THEN float_ms(DropLast(header_value, 1))
    ELSE float_ms(header_value)

\* random.uniform(10, 20)
RandomWaits == {10000, 15000, 20000}

\* line 366: a rate-limited POST is retried when attempt < 3
retries_on(attempt) == attempt < 3

GptEnds(kind, value, status) ==
    [gpt EXCEPT !.at = "idle", !.posts = @ + 1, !.status = status,
                !.outcome = [kind |-> kind, value |-> value]]

RateInit ==
    /\ AgentInit
    /\ client = "ChatGPT"
    /\ ConnParked
    /\ NavParked
    /\ CoordParked
    /\ CacheParked
    /\ PlanParked
    /\ NestParked
    /\ SchedParked
    /\ gpt = GptNew
    /\ gpt_left = MaxGptCalls

\* get_response_from_LLM is called: the loop starts
GptCall ==
    /\ gpt.at = "idle"
    /\ gpt_left > 0
    /\ gpt_left' = gpt_left - 1
    /\ gpt' = [GptNew EXCEPT !.delay = gpt.delay, !.at = "post"]

\* lines 348-363: the endpoint answers; the delay is reset and then set
\* from the header when there is one; the cleaned text is returned
GptAnswered ==
    /\ gpt.at = "post"
    /\ gpt.attempt < Attempts4
    /\ \E header \in ResetHeaders, text \in {PLAIN, THINK_T1} :
          gpt' = [GptEnds("returned", clean_response(text), 200) EXCEPT
                     !.delay = IF header = "" THEN 0 ELSE parse_delay(header)]
    /\ UNCHANGED gpt_left

\* lines 365-377 and 384-386: the endpoint answers 429; on the attempts
\* before the last the client sleeps, for self.delay when it is set and
\* for a random time otherwise, and goes on; on the last attempt the
\* exception is raised again
GptRateLimited ==
    /\ gpt.at = "post"
    /\ gpt.attempt < Attempts4
    /\ IF retries_on(gpt.attempt)
       THEN \E wait_time \in IF gpt.delay > 0 THEN {gpt.delay} ELSE RandomWaits :
               gpt' = [gpt EXCEPT
                          !.attempt = @ + 1,
                          !.posts = @ + 1,
                          !.status = 429,
                          !.delay = 0,
                          !.waits = Append(@, [hinted |-> gpt.delay > 0,
                                               ms |-> wait_time])]
       ELSE gpt' = GptEnds("raised", "HTTPStatusError", 429)
    /\ UNCHANGED gpt_left

\* lines 378-386: any other error status is raised again
GptStatusError ==
    /\ gpt.at = "post"
    /\ gpt.attempt < Attempts4
    /\ \E status \in {400, 500} : gpt' = GptEnds("raised", "HTTPStatusError", status)
    /\ UNCHANGED gpt_left

\* lines 388-400: a timeout or a network error is returned as a text
GptRequestError ==
    /\ gpt.at = "post"
    /\ gpt.attempt < Attempts4
    /\ gpt' = GptEnds("returned", APOLOGY_TEXT, 0)
    /\ UNCHANGED gpt_left

\* the parts of the program the request does not touch
gpt_rest == <<vars, conn_vars, nav_vars, coord_vars, llm_vars, plan_vars, nest_vars,
     sched_vars>>

RateNext ==
    \/ GptCall /\ UNCHANGED gpt_rest
    \/ GptAnswered /\ UNCHANGED gpt_rest
    \/ GptRateLimited /\ UNCHANGED gpt_rest
    \/ GptStatusError /\ UNCHANGED gpt_rest
    \/ GptRequestError /\ UNCHANGED gpt_rest

RateSpec == RateInit /\ [][RateNext]_<<gpt_vars, gpt_rest>>

(***************************************************************************)
(* C25.  When the endpoint answers rate-limited, the client sleeps (for    *)
(* the hinted delay or a random one) and retries, at most 3 times; when    *)
(* the endpoint is still rate-limited after the last retry the client      *)
(* returns a text and does not raise.  The code does not have this         *)
(* property: the last rate-limited answer is raised as HTTPStatusError.    *)
(***************************************************************************)
C25_RateLimitEndsWithText ==
    /\ Len(gpt.waits) <= 3
    /\ gpt.posts <= Len(gpt.waits) + 1
    /\ (gpt.at = "idle" /\ gpt.status = 429) => gpt.outcome.kind = "returned"

\* a step of the navigation agent that is a whole call of its initialize()
NavInitializeStep ==
    nav.at = "idle" /\ nav_left' < nav_left /\ nav'.op = "initialize"

(***************************************************************************)
(* C26.  initialize() of an agent that is initialized already changes      *)
(* nothing: the agent stays initialized with the same tool list, no tool   *)
(* list is fetched and no tool connection is initialized again.  The code  *)
(* does not have this property for NavigationAgent, which initializes      *)
(* every server again before it reaches the test of BaseAgent.initialize.  *)
(***************************************************************************)
C26_InitializeIdempotent ==
    [][(nav.initialized /\ NavInitializeStep) =>
          /\ servers' = servers
          /\ nav'.initialized
          /\ nav'.tools = nav.tools
          /\ nav'.outcome.kind = "returned"]_nav_vars

(***************************************************************************)
(* C27.  When a tool connection of the agent cannot be reached (its        *)
(* initialize times out, or its tool list cannot be fetched), the agent    *)
(* does not become initialized: an agent is never initialized with the     *)
(* tools of only a part of its servers.  The code does not have this       *)
(* property: a handshake timeout and a failed listing are only logged.     *)
(***************************************************************************)
C27_NoPartialInitialization ==
    nav.initialized => nav.unreached = {}

(***************************************************************************)
(* C28.  After an agent's cleanup() its conversation is empty, its tool    *)
(* list and its tool description are empty and it is not initialized.  The *)
(* code does not have this property: cleanup() keeps the tool list.        *)
(***************************************************************************)
C28_CleanupClears ==
    op = "cleanup" =>
        /\ conversation = <<>>
        /\ tools = <<>>
        /\ tools_description = ""
        /\ ~initialized

(***************************************************************************)
(* TaskPlanner (src/taskplanner.py): check_for_missing_information and     *)
(* process_answer.  Both are synchronous, so each is one step.  A call of  *)
(* an agent through _run_async_safely gives the agent's text, or None when *)
(* the agent raised or did not answer in time.                             *)
(***************************************************************************)
MaxPlanOps == 3

\* the responses of the question-generating agent
Q_FULL       == "[{\"question\": \"q1\", \"possible_answers\": [\"a\", \"b\"], \"reason\": \"r1\"}]"
Q_TWO        == "[{\"question\": \"q2\", \"possible_answers\": [\"c\"], \"reason\": \"r2\"}, {\"question\": \"q3\", \"possible_answers\": [], \"reason\": \"r3\"}]"
Q_NO_REASON  == "[{\"question\": \"q1\", \"possible_answers\": [\"a\"]}]"
Q_NO_ANSWERS == "[{\"question\": \"q1\"}]"
Q_EMPTY      == "[]"
Q_EMPTY_PAD  == " []\n"
Q_EMPTY_WIDE == "[ ]"
Q_LIST_NUM   == "[5]"
Q_LIST_STR   == "[\"question possible_answers\"]"
Q_OBJECT     == "{\"question\": \"q1\", \"possible_answers\": [\"a\"]}"
Q_PROSE      == "Nothing is missing."
Q_BLANK      == ""
NoneResponse == "None"

QuestionTexts ==
    {Q_FULL, Q_TWO, Q_NO_REASON, Q_NO_ANSWERS, Q_EMPTY, Q_EMPTY_PAD, Q_EMPTY_WIDE,
     Q_LIST_NUM, Q_LIST_STR, Q_OBJECT, Q_PROSE, Q_BLANK}

\* str.strip() on those texts
strip(text) == IF text = Q_EMPTY_PAD THEN "[]" ELSE text

\* json.loads on those texts: the type of the value, whether it is falsy,
\* and its element 0: its type, what "in" and [] find in it
Element0(kind, keys, sval, question, possible_answers, reason) ==
    [kind |-> kind, keys |-> keys, sval |-> sval, question |-> question,
     possible_answers |-> possible_answers, reason |-> reason]
NoElement == Element0("none", {}, "", "", <<>>, "")

questions_loads(text) ==
    CASE text = Q_FULL ->
            [ok |-> TRUE, kind |-> "list", falsy |-> FALSE,
             first |-> Element0("dict", {"question", "possible_answers", "reason"},
                                "", "q1", <<"a", "b">>, "r1")]
      [] text = Q_TWO ->
            [ok |-> TRUE, kind |-> "list", falsy |-> FALSE,
             first |-> Element0("dict", {"question", "possible_answers", "reason"},
                                "", "q2", <<"c">>, "r2")]
      [] text = Q_NO_REASON ->
            [ok |-> TRUE, kind |-> "list", falsy |-> FALSE,
             first |-> Element0("dict", {"question", "possible_answers"},
                                "", "q1", <<"a">>, "")]
      [] text = Q_NO_ANSWERS ->
            [ok |-> TRUE, kind |-> "list", falsy |-> FALSE,
             first |-> Element0("dict", {"question"}, "", "q1", <<>>, "")]
      [] text \in {Q_EMPTY, Q_EMPTY_PAD, Q_EMPTY_WIDE} ->
            [ok |-> TRUE, kind |-> "list", falsy |-> TRUE, first |-> NoElement]
      [] text = Q_LIST_NUM ->
            [ok |-> TRUE, kind |-> "list", falsy |-> FALSE,
             first |-> Element0("int", {}, "", "", <<>>, "")]
      [] text = Q_LIST_STR ->
            [ok |-> TRUE, kind |-> "list", falsy |-> FALSE,
             first |-> Element0("str", {}, "question possible_answers", "", <<>>, "")]
      [] text = Q_OBJECT ->
            [ok |-> TRUE, kind |-> "dict", falsy |-> FALSE, first |-> NoElement]
      [] OTHER -> [ok |-> FALSE, kind |-> "none", falsy |-> TRUE, first |-> NoElement]

\* key in data[0]
key_in(key, element) ==
    CASE element.kind = "dict" -> key \in element.keys
      [] element.kind = "str" -> Contains(element.sval, key)
      [] OTHER -> FALSE

\* TaskPlanner.is_empty_response
is_empty_response(text) == text = "" \/ strip(text) = "[]"

CheckReturns(p, value) ==
    [planner |-> p, kind |-> "returned", value |-> value]
CheckRaises(p, exception) ==
    [planner |-> p, kind |-> "raised", value |-> exception]

\* TaskPlanner.check_for_missing_information, lines 44-66, on the response
\* of the agent.  data[0] of a dict raises KeyError; "question" in data[0]
\* raises TypeError when data[0] is a number; data[0]["question"] raises
\* TypeError when data[0] is a string.
check_for_missing_information(p, text) ==
    LET data == questions_loads(text)
    IN  IF text = NoneResponse THEN CheckReturns(p, "False")
        ELSE IF is_empty_response(text) THEN CheckReturns(p, "False")
        ELSE IF ~data.ok THEN CheckReturns(p, "False")
        ELSE IF data.falsy THEN CheckReturns(p, "False")
        ELSE IF data.kind = "dict" THEN CheckRaises(p, "KeyError")
        ELSE IF data.first.kind = "int" THEN CheckRaises(p, "TypeError")
        ELSE IF ~key_in("question", data.first) \/ ~key_in("possible_answers", data.first)
             THEN CheckReturns(p, "False")
        ELSE IF data.first.kind = "str" THEN CheckRaises(p, "TypeError")
        ELSE CheckReturns(
                [p EXCEPT !.questions = Append(@, data.first.question),
                          !.possible_answers = data.first.possible_answers,
                          !.reason = data.first.reason],
                "True")

\* line 69
has_question(questions) == Len(questions) # 0

\* the texts of the statement-synthesis agent
Statements == {"statement", NoneResponse}

PlanInit ==
    /\ AgentInit
    /\ client = "ChatGPT"
    /\ ConnParked
    /\ NavParked
    /\ CoordParked
    /\ CacheParked
    /\ RateParked
    /\ NestParked
    /\ SchedParked
    /\ planner = PlannerNew
    /\ plan_left = MaxPlanOps

Latest(opname, kind, value, requests, text) ==
    [op |-> opname, kind |-> kind, value |-> value, requests |-> requests,
     response |-> text, awaiting |-> planner.awaiting,
     questions |-> planner.questions,
     possible_answers |-> planner.possible_answers, reason |-> planner.reason,
     description |-> "", name |-> "",
     task |-> [id |-> "", name |-> "", description |-> "", steps |-> <<>>]]

CheckForMissingInformation ==
    /\ plan_left > 0
    /\ plan_left' = plan_left - 1
    /\ \E text \in QuestionTexts \cup {NoneResponse} :
          LET c == check_for_missing_information(planner, text)
          IN  planner' = [c.planner EXCEPT
                            !.awaiting = c.kind = "returned" /\ c.value = "True",
                            !.latest = Latest("check", c.kind, c.value, 1, text)]

\* TaskPlanner.process_answer, lines 68-81
ProcessAnswer ==
    /\ plan_left > 0
    /\ plan_left' = plan_left - 1
    /\ IF ~has_question(planner.questions)
       THEN planner' = [planner EXCEPT
                           !.awaiting = FALSE,
                           !.latest = Latest("answer", "returned", "", 0, "")]
       ELSE \E result \in Statements :
               planner' = [planner EXCEPT
                              !.awaiting = FALSE,
                              !.latest = Latest("answer", "returned",
                                                IF result = NoneResponse THEN ""
                                                ELSE result,
                                                1, result)]

\* TaskPlanner.start_conversation
StartConversation ==
    /\ plan_left > 0
    /\ plan_left' = plan_left - 1
    /\ planner' = [planner EXCEPT
                      !.questions = <<>>,
                      !.awaiting = FALSE,
                      !.latest = Latest("start_conversation", "returned", "", 0, "")]

\* the responses of the step-planning agent
S_LIST   == "[{\"action\": \"open\", \"validation_action\": \"see\"}, {\"action\": \"click\", \"validation_action\": \"check\"}]"
S_NONE   == "[]"
S_OBJECT == "{\"steps\": []}"
S_STRING == "\"open the page\""
S_NUMBER == "5"
S_PROSE  == "Here are the steps."

StepTexts == {S_LIST, S_NONE, S_OBJECT, S_STRING, S_NUMBER, S_PROSE}

\* json.loads on those texts: whether it parses, the type of the value and
\* the actions of its steps in order
steps_loads(text) ==
    CASE text = S_LIST -> [ok |-> TRUE, kind |-> "list", steps |-> <<"open", "click">>]
      [] text = S_NONE -> [ok |-> TRUE, kind |-> "list", steps |-> <<>>]
      [] text = S_OBJECT -> [ok |-> TRUE, kind |-> "dict", steps |-> <<>>]
      [] text = S_STRING -> [ok |-> TRUE, kind |-> "str", steps |-> <<>>]
      [] text = S_NUMBER -> [ok |-> TRUE, kind |-> "int", steps |-> <<>>]
      [] OTHER -> [ok |-> FALSE, kind |-> "none", steps |-> <<>>]

\* _run_async_safely(step_planner_agent.process_message("?")): the agent has
\* no tools, so its loop returns the text of the model unless
\* process_llm_response raises ("tool" in a number), and whatever the agent
\* raises, like a timeout, becomes None
run_async_safely(text) ==
    IF text = NoneResponse \/ steps_loads(text).kind = "int"
    THEN NoneResponse
    ELSE text

\* the fields of the dataclass AutomationTask (src/automation_task.py:4-8)
AutomationTaskFields == {"id", "name", "description"}

\* the generated __init__ takes the fields of the dataclass and no other
\* keyword
accepts(keywords) == keywords \subseteq AutomationTaskFields

NoTask == [id |-> "", name |-> "", description |-> "", steps |-> <<>>]

\* TaskPlanner.prepare_plan, lines 91-111, on the response of the agent
prepare_plan(id, name, task_description, text) ==
    LET result == run_async_safely(text)
    IN  IF Len(task_description) = 0
        THEN [kind |-> "returned", value |-> "None", task |-> NoTask, requests |-> 0]
        ELSE IF result = NoneResponse
        THEN [kind |-> "returned", value |-> "None", task |-> NoTask, requests |-> 1]
        ELSE IF ~steps_loads(result).ok
        THEN [kind |-> "returned", value |-> "None", task |-> NoTask, requests |-> 1]
        ELSE IF ~accepts({"id", "name", "description", "steps"})
        THEN [kind |-> "raised", value |-> "TypeError", task |-> NoTask, requests |-> 1]
        ELSE [kind |-> "returned", value |-> "task",
              task |-> [id |-> id, name |-> name, description |-> task_description,
                        steps |-> steps_loads(result).steps],
              requests |-> 1]

\* the descriptions and names a plan is asked for
Descriptions == {"", "d1"}
Names == {"n1"}

PreparePlan ==
    /\ plan_left > 0
    /\ plan_left' = plan_left - 1
    /\ \E task_description \in Descriptions, name \in Names,
          text \in StepTexts \cup {NoneResponse} :
          LET r == prepare_plan("new", name, task_description, text)
          IN  planner' = [planner EXCEPT
                            !.latest = [Latest("plan", r.kind, r.value, r.requests, text)
                                          EXCEPT !.description = task_description,
                                                 !.name = name,
                                                 !.task = r.task]]

\* the parts of the program the planner does not touch
plan_rest == <<vars, conn_vars, nav_vars, coord_vars, llm_vars, gpt_vars,
              nest_vars, sched_vars>>

PlanNext ==
    \/ CheckForMissingInformation /\ UNCHANGED plan_rest
    \/ ProcessAnswer /\ UNCHANGED plan_rest
    \/ StartConversation /\ UNCHANGED plan_rest
    \/ PreparePlan /\ UNCHANGED plan_rest

PlanSpec == PlanInit /\ [][PlanNext]_<<plan_vars, plan_rest>>

\* the response is the JSON text of a list that is not empty
NonEmptyList(text) ==
    questions_loads(text).ok /\ questions_loads(text).kind = "list"
        /\ ~questions_loads(text).falsy

(***************************************************************************)
(* C29.  check_for_missing_information returns true exactly when the       *)
(* response of the question-generating agent is a non-empty list; it then  *)
(* records the first question of the list with its allowed answers and its *)
(* rationale, and the planner awaits an answer; for the literal empty list *)
(* it returns false and records no question.  The code does not have this  *)
(* property: a non-empty list whose first element is not a mapping with    *)
(* both keys makes it raise or return false.                               *)
(***************************************************************************)
C29_TrueIffNonEmptyList ==
    planner.latest.op = "check" =>
        /\ planner.latest.kind = "returned"
        /\ (planner.latest.value = "True") <=> NonEmptyList(planner.latest.response)
        /\ planner.latest.value = "True" =>
              /\ planner.questions =
                    Append(planner.latest.questions,
                           questions_loads(planner.latest.response).first.question)
              /\ planner.possible_answers =
                    questions_loads(planner.latest.response).first.possible_answers
              /\ planner.reason = questions_loads(planner.latest.response).first.reason
              /\ planner.awaiting
        /\ planner.latest.value = "False" =>
              planner.questions = planner.latest.questions

(***************************************************************************)
(* C30.  process_answer is accepted only while the planner awaits an       *)
(* answer: one made after another process_answer with no check that        *)
(* returned true in between, or after a check that reported nothing        *)
(* missing, synthesizes no statement and makes no language-model request.  *)
(* The code does not have this property: the recorded questions are never  *)
(* consumed.                                                               *)
(***************************************************************************)
C30_AnswerOnlyWhileAwaiting ==
    (planner.latest.op = "answer" /\ ~planner.latest.awaiting) =>
        /\ planner.latest.requests = 0
        /\ planner.latest.value = ""

\* the response is the JSON text of a list (of steps)
StepList(text) == steps_loads(text).ok /\ steps_loads(text).kind = "list"

(***************************************************************************)
(* C31.  prepare_plan returns no plan, and raises nothing, when the task   *)
(* description is empty, in which case no request is made, and whenever    *)
(* the response of the step-planning agent is not parseable or parses to   *)
(* something that is not a list of steps.  The code does not have this     *)
(* property: a response that parses is never examined, and reaches a       *)
(* constructor call that raises.                                           *)
(***************************************************************************)
C31_NoPlanWithoutRaising ==
    (/\ planner.latest.op = "plan"
     /\ planner.latest.description = "" \/ ~StepList(planner.latest.response)) =>
        /\ planner.latest.kind = "returned"
        /\ planner.latest.value = "None"
        /\ planner.latest.description = "" => planner.latest.requests = 0

(***************************************************************************)
(* C32.  For a task description that is not empty and a response that      *)
(* parses as a list of steps, prepare_plan returns a task carrying the     *)
(* given id, name and description and the steps in order, and raises       *)
(* nothing.  The code does not have this property: AutomationTask has no   *)
(* steps field, so constructing the task raises TypeError.                 *)
(***************************************************************************)
C32_PlanCarriesSteps ==
    (/\ planner.latest.op = "plan"
     /\ planner.latest.description # ""
     /\ StepList(planner.latest.response)) =>
        /\ planner.latest.kind = "returned"
        /\ planner.latest.value = "task"
        /\ planner.latest.task =
              [id |-> "new", name |-> planner.latest.name,
               description |-> planner.latest.description,
               steps |-> steps_loads(planner.latest.response).steps]

\* the response is not the JSON text of a list of questions: it does not
\* parse, or parses to something that is not a list, or to a list whose
\* first element is not a mapping
NotQuestionList(text) ==
    \/ ~questions_loads(text).ok
    \/ questions_loads(text).kind # "list"
    \/ ~questions_loads(text).falsy /\ questions_loads(text).first.kind # "dict"

(***************************************************************************)
(* C39.  check_for_missing_information returns false, and leaves the       *)
(* recorded questions, allowed answers and rationale as they were,         *)
(* whenever the request of the question-generating agent times out or      *)
(* fails (the response is None) or its text is not parseable as a list of  *)
(* questions.  The code does not have this property: a text that parses to *)
(* a mapping, or to a list of numbers or strings, makes it raise (the      *)
(* defect of C29).                                                         *)
(***************************************************************************)
C39_FailureReadsAsNothingMissing ==
    (/\ planner.latest.op = "check"
     /\ planner.latest.response = NoneResponse
            \/ NotQuestionList(planner.latest.response)) =>
        /\ planner.latest.kind = "returned"
        /\ planner.latest.value = "False"
        /\ planner.questions = planner.latest.questions
        /\ planner.possible_answers = planner.latest.possible_answers
        /\ planner.reason = planner.latest.reason

\* a step that is the call of execute_tool by coroutine t, up to its first
\* await or its end
ExecuteToolCalled(t) ==
    /\ task[t].at = "idle"
    /\ latest' # latest
    /\ latest'.task = t
    /\ task'[t].op = "execute_tool"

(***************************************************************************)
(* C38.  execute_tool called with retries <= 0 on an initialized           *)
(* connection (one that holds a session) makes no call attempt and no      *)
(* recovery, raises nothing and returns None; the connection is left as it *)
(* was.                                                                    *)
(***************************************************************************)
C38_NoRetriesNoAttempt ==
    [][\A t \in Tasks :
          (/\ ExecuteToolCalled(t)
           /\ task'[t].retries <= 0
           /\ mcp.session # None) =>
              /\ task'[t].at = "idle"
              /\ task'[t].attempt = 0
              /\ task'[t].used = None
              /\ task'[t].errors = <<>>
              /\ task'[t].events = <<>>
              /\ task'[t].outcome = [kind |-> "returned", value |-> "None"]
              /\ mcp' = mcp]_conn_vars

\* the call with no retries has just been made on a live session, after an
\* earlier call of the same coroutine had returned a result
C38_Witness ==
    \E t \in Tasks :
        /\ latest = [task |-> t, step |-> "no_attempt"]
        /\ task[t].op = "execute_tool"
        /\ task[t].retries = 0
        /\ mcp.session # None
        /\ task[t].before.op = "execute_tool"
        /\ task[t].before.kind = "returned"
        /\ task[t].outcome = [kind |-> "returned", value |-> "None"]

(***************************************************************************)
(* C40.  After NavigationAgent.cleanup() has returned the agent holds no   *)
(* tool connection: a later initialize() (the first step of                *)
(* process_message and process_task) makes it initialized with no tool and *)
(* an empty tool description, no session is opened again, and a tool call  *)
(* is listed and invoked on no server.                                     *)
(***************************************************************************)
C40_CleanupIsFinal ==
    nav.cleaned =>
        /\ nav.held = {}
        /\ nav.at = "idle"
        /\ nav.listed = <<>>
        /\ nav.invoked = <<>>
        /\ \A s \in Servers : servers[s].session = None
        /\ nav.tools_description = ""
        /\ nav.initialized => nav.tools = <<>>
        /\ nav.op = "execute_tool" =>
              nav.outcome = [kind |-> "raised", value |-> "RuntimeError"]

\* an agent that had gathered tools was cleaned up and initialized again:
\* it is initialized with no tool, although its servers still declare some
C40_Witness ==
    /\ nav.cleaned
    /\ nav.op = "initialize"
    /\ nav.initialized
    /\ nav.tools = <<>>
    /\ \E s \in Servers : servers[s].cached_tools # <<>>

\* the loop is about to handle a well-formed call of a tool the agent does
\* not have
UnknownToolStep ==
    /\ pc = "loop"
    /\ loop_continues(iteration_count)
    /\ IsToolCallByRule(response)
    /\ CallOf(response).tool \notin Range(tools)

(***************************************************************************)
(* C35.  When the model answers with a well-formed tool call whose tool is *)
(* not in the agent's tool list, no tool is executed, the text             *)
(* "Unknown tool: <name>" is given to the model as the tool result, and    *)
(* the step counts as one iteration; so an invocation can reach the        *)
(* ceiling with no tool executed.                                          *)
(***************************************************************************)
C35_UnknownToolCountsAsIteration ==
    [][UnknownToolStep =>
          /\ executions' = executions
          /\ iteration_count' = iteration_count + 1
          /\ results' = Append(results, "Unknown tool: " \o CallOf(response).tool)
          /\ Last(last_messages').content =
                tool_response_text(mode, "Unknown tool: " \o CallOf(response).tool)
          /\ llm_requests' = llm_requests + 1]_vars

\* process_message has returned at the ceiling and no tool was executed:
\* every iteration was the feedback of an unknown tool
C35_Witness ==
    /\ pc = "returned"
    /\ op = "ceiling"
    /\ mode = "message"
    /\ iteration_count = MAX_TOOL_ITERATIONS
    /\ executions = <<>>
    /\ \A i \in DOMAIN results : results[i] = "Unknown tool: t9"

\* process_task ends an iteration whose tool result is the one of the
\* iteration before
SameResultAgain ==
    /\ mode = "task"
    /\ iteration_count >= 1
    /\ iteration_count' = iteration_count + 1
    /\ Last(results') = Last(results)

\* the cache key of the request that step makes
RepeatedKey == cache_key(get_system_message(tools_description), last_messages')

(***************************************************************************)
(* C36.  In process_task, when the tool result of an iteration equals the  *)
(* tool result of the iteration before, the response that follows is       *)
(* served from the cache, with no model invocation, and is the response    *)
(* that followed the iteration before; so while a tool call keeps giving   *)
(* the same result the same tool call is made again, up to the ceiling.    *)
(***************************************************************************)
C36_SameResultServedFromCache ==
    [][SameResultAgain =>
          /\ pc' = "loop"
          /\ RepeatedKey \in DOMAIN cache
          /\ response' = cache[RepeatedKey]
          /\ response' = response
          /\ cache' = cache
          /\ responses' = Append(responses, response)]_vars

\* process_task has returned at the ceiling after a known tool gave the same
\* result in every iteration: the same call was made every time, and the
\* model was asked for the first two responses only
C36_Witness ==
    /\ pc = "returned"
    /\ op = "ceiling"
    /\ mode = "task"
    /\ iteration_count = MAX_TOOL_ITERATIONS
    /\ \A i \in DOMAIN results : results[i] = "Tool execution result: r1"
    /\ Len(executions) = MAX_TOOL_ITERATIONS
    /\ \A i \in DOMAIN executions : executions[i] = CallOf(TC_T1)
    /\ Cardinality(DOMAIN cache) = 2

(***************************************************************************)
(* The scheduler thread (src/app.py:62-82, src/taskplanner.py:28-38).  A   *)
(* thread outside the event loop hands a process_message coroutine to the  *)
(* loop with run_coroutine_threadsafe and waits for its future with a      *)
(* deadline.  The event loop runs one coroutine at a time, from one        *)
(* suspension to the next; get_response blocks the loop and does not       *)
(* suspend, so a coroutine is suspended only while it awaits the execution *)
(* of a tool.  A request is handed over when the thread before it has      *)
(* stopped waiting, as execute_task does with its steps.                   *)
(***************************************************************************)
MaxRequests == 2

Requests == 1..MaxRequests

\* the agents with tools: process_message of the others never awaits
has_tools(agent) == agent = "chatmanager"

\* a message of request r appended to a conversation
appended(conv, r) ==
    IF conv # <<>> /\ conv[Len(conv)] = r THEN conv ELSE Append(conv, r)

\* future.result(timeout=210) raises and the coroutine is left as it is
deadline(l) == l

\* what the waiting thread returns when future.result raises TimeoutError:
\* the except clause of app.process_message (lines 77-78), or of
\* _run_async_safely (lines 33-35)
timeout_outcome(agent) ==
    IF agent = "chatmanager"
    THEN [kind |-> "returned", value |-> "Error: Command timed out, command: c"]
    ELSE [kind |-> "returned", value |-> NoneResponse]

SchedInit ==
    /\ AgentInit
    /\ client = "ChatGPT"
    /\ ConnParked
    /\ NavParked
    /\ CoordParked
    /\ CacheParked
    /\ RateParked
    /\ PlanParked
    /\ NestParked
    /\ sched = SchedNew(Requests)

SchedIdle == \A r \in Requests : sched.loops[r].at # "running"

\* run_coroutine_threadsafe(agent.process_message(command), loop), and the
\* thread starts to wait
Submit(r) ==
    /\ sched.loops[r].at = "none"
    /\ \A q \in Requests : q < r => sched.waiters[q].at = "done"
    /\ \E agent \in SchedAgents :
          sched' = [sched EXCEPT
                       !.loops[r] = [NoLoop EXCEPT !.at = "queued", !.agent = agent],
                       !.waiters[r] = [NoWaiter EXCEPT !.at = "waiting"]]

\* the event loop starts the coroutine: the user message is appended and
\* the first response is requested (src/baseagent.py:87-92)
LoopStart(r) ==
    /\ sched.loops[r].at = "queued"
    /\ SchedIdle
    /\ sched' = [sched EXCEPT
                    !.loops[r].at = "running",
                    !.conversations[sched.loops[r].agent] = appended(@, r)]

\* the response is appended (lines 93 and 114); it is no tool call, or the
\* ceiling is reached, and process_message returns
LoopReturns(r) ==
    /\ sched.loops[r].at = "running"
    /\ sched' = [sched EXCEPT
                    !.loops[r].at = "finished",
                    !.conversations[sched.loops[r].agent] = appended(@, r)]

\* the response is appended; it is the call of a tool, and the coroutine is
\* suspended in execute_tool (line 75)
LoopAwaitsTool(r) ==
    /\ sched.loops[r].at = "running"
    /\ has_tools(sched.loops[r].agent)
    /\ loop_continues(sched.loops[r].iteration_count)
    /\ sched' = [sched EXCEPT
                    !.loops[r].at = "awaiting",
                    !.conversations[sched.loops[r].agent] = appended(@, r)]

\* the tool has ended and the event loop resumes the coroutine: the
\* iteration is counted, the tool result is appended and the next response
\* is requested (lines 106-113)
LoopResumes(r) ==
    /\ sched.loops[r].at = "awaiting"
    /\ SchedIdle
    /\ sched' = [sched EXCEPT
                    !.loops[r].at = "running",
                    !.loops[r].iteration_count = @ + 1,
                    !.conversations[sched.loops[r].agent] = appended(@, r)]

\* the deadline of the waiting thread expires before the coroutine is done:
\* while it runs or is suspended, or while the event loop is kept by
\* another coroutine
DeadlineExpires(r) ==
    /\ sched.waiters[r].at = "waiting"
    /\ \/ sched.loops[r].at \in {"running", "awaiting"}
       \/ sched.loops[r].at = "queued" /\ ~SchedIdle
    /\ sched' = [sched EXCEPT
                    !.loops[r] = deadline(@),
                    !.waiters[r] = [at |-> "done",
                                    outcome |-> timeout_outcome(sched.loops[r].agent)]]

\* future.result returns what process_message returned
ResultDelivered(r) ==
    /\ sched.waiters[r].at = "waiting"
    /\ sched.loops[r].at = "finished"
    /\ sched' = [sched EXCEPT
                    !.waiters[r] = [at |-> "done",
                                    outcome |-> [kind |-> "returned",
                                                 value |-> "response"]]]

\* the parts of the program the scheduler does not touch
sched_rest == <<vars, conn_vars, nav_vars, coord_vars, llm_vars, gpt_vars,
                plan_vars, nest_vars>>

SchedNext ==
    \/ \E r \in Requests : Submit(r) /\ UNCHANGED sched_rest
    \/ \E r \in Requests : LoopStart(r) /\ UNCHANGED sched_rest
    \/ \E r \in Requests : LoopReturns(r) /\ UNCHANGED sched_rest
    \/ \E r \in Requests : LoopAwaitsTool(r) /\ UNCHANGED sched_rest
    \/ \E r \in Requests : LoopResumes(r) /\ UNCHANGED sched_rest
    \/ \E r \in Requests : DeadlineExpires(r) /\ UNCHANGED sched_rest
    \/ \E r \in Requests : ResultDelivered(r) /\ UNCHANGED sched_rest

SchedSpec == SchedInit /\ [][SchedNext]_<<sched_vars, sched_rest>>

\* the waiting thread of request r stopped at its deadline
TimedOut(r) ==
    /\ sched.waiters[r].at = "done"
    /\ sched.waiters[r].outcome # [kind |-> "returned", value |-> "response"]

\* what the thread got tells that the deadline expired
IsTimeoutError(outcome) ==
    \/ outcome = [kind |-> "raised", value |-> "TimeoutError"]
    \/ outcome.kind = "returned" /\ StartsWith(outcome.value, "Error: Command timed out")

\* process_message of request r has started and has not returned
InProgress(r) == sched.loops[r].at \in {"running", "awaiting"}

(***************************************************************************)
(* C33.  When the deadline of the thread that waits for a request expires, *)
(* the thread gets a timeout error, and the loop of the request is not     *)
(* cancelled: it stays queued, running or suspended, or has finished.  The *)
(* code does not have the first half: _run_async_safely turns the expiry   *)
(* into None, as it does every other failure.                              *)
(***************************************************************************)
C33_DeadlineGivesTimeoutError ==
    \A r \in Requests :
        TimedOut(r) =>
            /\ IsTimeoutError(sched.waiters[r].outcome)
            /\ sched.loops[r].at \in {"queued", "running", "awaiting", "finished"}

(***************************************************************************)
(* C34.  Two process_message loops of one agent are never in progress      *)
(* together, and their messages do not interleave in its conversation: the *)
(* messages of a request are appended with no message of another request   *)
(* among them.  The code does not have this property: a request handed     *)
(* over after the deadline of an earlier one starts while the earlier loop *)
(* is suspended in a tool.                                                 *)
(***************************************************************************)
C34_OneLoopPerAgent ==
    /\ \A r1, r2 \in Requests :
          (r1 # r2 /\ InProgress(r1) /\ InProgress(r2))
              => sched.loops[r1].agent # sched.loops[r2].agent
    /\ \A a \in SchedAgents :
          \A i, j \in DOMAIN sched.conversations[a] :
              i # j => sched.conversations[a][i] # sched.conversations[a][j]

(***************************************************************************)
(* One instruction given to the ConversationAgent, followed through the    *)
(* loop of its process_message, the loop of the navigation sub-agent's     *)
(* process_task that a navigation_agent tool call starts, and the loop     *)
(* over the servers of NavigationAgent.execute_tool.  The texts are left   *)
(* out: what is kept is which branch each response takes and how many      *)
(* times a server's execute_tool is called.  The longest run is the one in *)
(* which every response is a tool call and every execution fails; every    *)
(* step that leaves it is a detour, and a run makes at most MaxDetours.    *)
(***************************************************************************)
MaxDetours == 1

NestInit ==
    /\ AgentInit
    /\ client = "ChatGPT"
    /\ ConnParked
    /\ NavParked
    /\ CoordParked
    /\ CacheParked
    /\ RateParked
    /\ PlanParked
    /\ SchedParked
    /\ nest = NestIdle
    /\ nest_left = MaxDetours

Detour(taken) ==
    /\ taken => nest_left > 0
    /\ nest_left' = IF taken THEN nest_left - 1 ELSE nest_left

\* ConversationAgent.process_message called (src/baseagent.py:86-97)
NestInstruction ==
    /\ nest.at \in {"idle", "returned"}
    /\ Detour(nest.at = "returned")
    /\ nest' = [NestIdle EXCEPT !.at = "coordinator"]

\* the coordinator's loop ends: its response is no tool call, or the
\* ceiling is reached (src/baseagent.py:99-104, 117-121)
NestCoordinatorReturns ==
    /\ nest.at = "coordinator"
    /\ Detour(loop_continues(nest.iteration_count))
    /\ nest' = [nest EXCEPT !.at = "returned"]

\* the coordinator's response calls page_analysis_agent or a tool that is
\* not known: an iteration with no navigation
NestCoordinatorOther ==
    /\ nest.at = "coordinator"
    /\ loop_continues(nest.iteration_count)
    /\ Detour(TRUE)
    /\ nest' = [nest EXCEPT !.iteration_count = @ + 1]

\* the coordinator's response calls navigation_agent: execute_tool awaits
\* the sub-agent's process_task (src/conversationagent.py:38-39), whose
\* loop starts (src/baseagent.py:142-146)
NestNavigationTask ==
    /\ nest.at = "coordinator"
    /\ loop_continues(nest.iteration_count)
    /\ nest' = [nest EXCEPT !.at = "navigation", !.sub_iteration_count = 0]
    /\ UNCHANGED nest_left

\* the sub-agent's loop ends, by its response or at its ceiling: the
\* coordinator's iteration is counted (src/baseagent.py:106)
NestNavigationReturns ==
    /\ nest.at = "navigation"
    /\ Detour(loop_continues(nest.sub_iteration_count))
    /\ nest' = [nest EXCEPT !.at = "coordinator", !.iteration_count = @ + 1]

\* the sub-agent's response calls a tool that is not in its list: an
\* iteration with no server called
NestNavigationUnknownTool ==
    /\ nest.at = "navigation"
    /\ loop_continues(nest.sub_iteration_count)
    /\ Detour(TRUE)
    /\ nest' = [nest EXCEPT !.sub_iteration_count = @ + 1]

\* the sub-agent's response calls one of its tools:
\* NavigationAgent.execute_tool starts its loop over the servers
NestToolCall ==
    /\ nest.at = "navigation"
    /\ loop_continues(nest.sub_iteration_count)
    /\ nest' = [nest EXCEPT !.at = "server", !.i = 1]
    /\ UNCHANGED nest_left

\* src/navigationagent.py:110-117 on the server reached: it does not list
\* the tool (or listing raises), or its execute_tool is called and returns,
\* or is called and raises; what raises is logged and the loop goes on, and
\* after the last server RuntimeError becomes the tool result.  Either way
\* the sub-agent's iteration is counted once the call has ended.
NestServer ==
    /\ nest.at = "server"
    /\ \E declares \in BOOLEAN, raises \in BOOLEAN :
          LET called == [nest EXCEPT !.dispatches =
                            IF declares THEN @ + 1 ELSE @]
              ends == [called EXCEPT !.at = "navigation", !.i = 0,
                                     !.sub_iteration_count = @ + 1]
          IN  /\ declares \/ ~raises
              /\ Detour(~(declares /\ raises))
              /\ nest' = IF declares /\ ~raises THEN ends
                         ELSE IF nest.i + 1 \in Servers
                         THEN [called EXCEPT !.i = @ + 1]
                         ELSE ends

\* the parts of the program the instruction does not touch
nest_rest == <<vars, conn_vars, nav_vars, coord_vars, llm_vars, gpt_vars,
               plan_vars, sched_vars>>

NestNext ==
    \/ NestInstruction /\ UNCHANGED nest_rest
    \/ NestCoordinatorReturns /\ UNCHANGED nest_rest
    \/ NestCoordinatorOther /\ UNCHANGED nest_rest
    \/ NestNavigationTask /\ UNCHANGED nest_rest
    \/ NestNavigationReturns /\ UNCHANGED nest_rest
    \/ NestNavigationUnknownTool /\ UNCHANGED nest_rest
    \/ NestToolCall /\ UNCHANGED nest_rest
    \/ NestServer /\ UNCHANGED nest_rest

NestSpec == NestInit /\ [][NestNext]_<<nest_vars, nest_rest>>

(***************************************************************************)
(* C37.  For one instruction given to the ConversationAgent, the number of *)
(* tool dispatches of the navigation sub-agent to its tool connections is  *)
(* at most ceiling x ceiling, and it can exceed the ceiling.  The code     *)
(* does not keep the bound: one iteration of the sub-agent can call the    *)
(* execute_tool of several servers (the defect of C19).                    *)
(***************************************************************************)
C37_DispatchesBounded ==
    nest.dispatches <= MAX_TOOL_ITERATIONS * MAX_TOOL_ITERATIONS

====
